---- MODULE Spec2Model ----
(***************************************************************************)
(* Keystone capability management (AddCapabilities, dedupCapabilities) and *)
(* the CCIP deployment orchestration (per-chain deployers and their        *)
(* errgroup fan-out coordinators), modelled as state machines.             *)
(***************************************************************************)
EXTENDS Naturals, Sequences, FiniteSets, Bags, TLC

(***************************************************************************)
(* Bounds                                                                  *)
(***************************************************************************)
\* longest capability list handed to dedupCapabilities on its own
MaxLen == 3
\* longest capability list of one registration request in the flows
MaxReq == 2
\* most proposals waiting for execution at once
MaxPending == 2

\* the runs of a coordinator on one environment, one after the other
MaxRuns == 3

(***************************************************************************)
(* Capability descriptors                                                  *)
(***************************************************************************)
Nil == "nil"

LabelledNames == {"capA", "capB", "capA@1.0"}
Versions == {"1.0", "2.0", "1.0@2.0"}
CapabilityTypes == {"trigger", "action"}

\* kcr.CapabilitiesRegistryCapability: name, version and the other fields
Cap(n, v, t) == [LabelledName |-> n, Version |-> v, CapabilityType |-> t]

capA == Cap("capA", "1.0", "trigger")
capB == Cap("capB", "1.0", "trigger")
capC == Cap("capA@1.0", "2.0", "trigger")
capD == Cap("capA", "1.0@2.0", "trigger")

\* the (name, version) pairs in play, each with either value of the other field
Descriptors ==
    { Cap(c.LabelledName, c.Version, t) : c \in {capA, capB, capC, capD}, t \in CapabilityTypes }

\* the descriptors the registration flows request
FlowDescriptors == {capA, capB}

SeqsUpTo(S, n) == UNION { [1..k -> S] : k \in 0..n }

Range(s) == { s[i] : i \in 1..Len(s) }

(***************************************************************************)
(* The registry contract as the Go code sees it                            *)
(***************************************************************************)
\* registry.GetHashedCapabilityId: the contract hashes abi.encode(name, version);
\* the encoding is length-prefixed, so the hash identifies the pair.
GetHashedCapabilityId(labelledName, version) == <<labelledName, version>>

HashOf(c) == GetHashedCapabilityId(c.LabelledName, c.Version)

HashedIds == { HashOf(c) : c \in Descriptors }

\* registry.AddCapabilities on chain: adding a hashed id that is already in the
\* set (registered before, or earlier in the same list) reverts the transaction.
RECURSIVE AddCapabilitiesOnchain(_, _)
AddCapabilitiesOnchain(registered, caps) ==
    IF Len(caps) = 0 THEN [ok |-> TRUE, registered |-> registered]
    ELSE IF HashOf(Head(caps)) \in registered THEN [ok |-> FALSE, registered |-> registered]
    ELSE AddCapabilitiesOnchain(registered \cup {HashOf(Head(caps))}, Tail(caps))

(***************************************************************************)
(* capability_management.go                                                *)
(***************************************************************************)
\* CapabilityID: fmt.Sprintf("%s@%s", c.LabelledName, c.Version)
CapabilityID(c) == c.LabelledName \o "@" \o c.Version

\* dedupLoop without the seen map: repeated candidates are all kept
RECURSIVE dedupLoopNoSeen(_, _, _, _, _)
dedupLoopNoSeen(capabilities, i, existingByID, seen, out) ==
    IF i > Len(capabilities) THEN out
    ELSE LET candidate == capabilities[i]
             h == GetHashedCapabilityId(candidate.LabelledName, candidate.Version)
         IN  dedupLoopNoSeen(capabilities, i + 1, existingByID, seen,
                             IF h \notin existingByID THEN Append(out, candidate) ELSE out)

\* dedupLoop without the check against the registry: registered candidates are kept
RECURSIVE dedupLoopNoRegistry(_, _, _, _, _)
dedupLoopNoRegistry(capabilities, i, existingByID, seen, out) ==
    IF i > Len(capabilities) THEN out
    ELSE LET candidate == capabilities[i]
         IN  IF CapabilityID(candidate) \in seen
             THEN dedupLoopNoRegistry(capabilities, i + 1, existingByID, seen, out)
             ELSE dedupLoopNoRegistry(capabilities, i + 1, existingByID,
                                      seen \cup {CapabilityID(candidate)},
                                      Append(out, candidate))

\* the loop of dedupCapabilities over the candidates, from index i on
RECURSIVE dedupLoop(_, _, _, _, _)
dedupLoop(capabilities, i, existingByID, seen, out) ==
    IF i > Len(capabilities) THEN out
    ELSE LET candidate == capabilities[i]
             h == GetHashedCapabilityId(candidate.LabelledName, candidate.Version)
         IN  IF CapabilityID(candidate) \in seen
             THEN dedupLoop(capabilities, i + 1, existingByID, seen, out)
             ELSE dedupLoop(capabilities, i + 1, existingByID,
                            seen \cup {CapabilityID(candidate)},
                            IF h \notin existingByID THEN Append(out, candidate) ELSE out)

\* a dedupCapabilities that goes on after a failed registry read
dedupCapabilitiesReadErrorDropped(registered, capabilities, fault) ==
    [out |-> dedupLoop(capabilities, 1, registered, {}, <<>>), err |-> Nil]

\* a dedupCapabilities that reports a request with a registered or repeated capability
dedupCapabilitiesRejecting(registered, capabilities, fault) ==
    IF fault = "GetCapabilities"
    THEN [out |-> <<>>, err |-> "failed to call GetCapabilities"]
    ELSE IF fault = "GetHashedCapabilityId" /\ Len(capabilities) > 0
    THEN [out |-> <<>>, err |-> "failed to call GetHashedCapabilityId"]
    ELSE IF Len(dedupLoop(capabilities, 1, registered, {}, <<>>)) < Len(capabilities)
    THEN [out |-> <<>>, err |-> "duplicate capability"]
    ELSE [out |-> capabilities, err |-> Nil]

\* dedupCapabilities(registry, capabilities); fault names the registry read that
\* fails in this call, if any.
dedupCapabilities(registered, capabilities, fault) ==
    IF fault = "GetCapabilities"
    THEN [out |-> <<>>, err |-> "failed to call GetCapabilities"]
    ELSE IF fault = "GetHashedCapabilityId" /\ Len(capabilities) > 0
    THEN [out |-> <<>>, err |-> "failed to call GetHashedCapabilityId"]
    ELSE [out |-> dedupLoop(capabilities, 1, registered, {}, <<>>), err |-> Nil]

\* the address of the registry contract and the chain it lives on
RegistryAddress == "CapabilitiesRegistry"
RegistryChainSel == "registryChain"

\* a *timelock.BatchChainOperation: the nil pointer, or a pointer to one batch
NoBatch == <<>>
PtrTo(b) == <<b>>

\* one mcms.Operation of a timelock.BatchChainOperation
Operation(to, method, args) == [To |-> to, Data |-> [method |-> method, args |-> args], Value |-> 0]

AddFaults == {"none", "GetCapabilities", "GetHashedCapabilityId", "AddCapabilities", "Confirm"}

\* one call made on the registry binding or on the chain, and whether it failed
Call(fn, txOpts, args, failed) == [fn |-> fn, txOpts |-> txOpts, args |-> args, failed |-> failed]

\* TxOpts that keeps the deployer key in batched mode
TxOptsAlwaysDeployerKey(useMCMS) == "DeployerKey"

\* txOpts := chain.DeployerKey; if useMCMS { txOpts = deployment.SimTransactOpts() }
TxOpts(useMCMS) == IF useMCMS THEN "SimTransactOpts" ELSE "DeployerKey"

\* the binding's registry.AddCapabilities(txOpts, deduped): simulated options
\* build the transaction without sending it; the deployer key sends it, after a
\* gas estimate that fails if the call would revert.
RegistryAddCapabilities(registered, txOpts, deduped, fault) ==
    IF fault = "AddCapabilities" THEN [failed |-> TRUE, sent |-> FALSE]
    ELSE IF txOpts = "SimTransactOpts" THEN [failed |-> FALSE, sent |-> FALSE]
    ELSE IF ~AddCapabilitiesOnchain(registered, deduped).ok THEN [failed |-> TRUE, sent |-> FALSE]
    ELSE [failed |-> FALSE, sent |-> TRUE]

\* ConfirmTx that drops the error of chain.Confirm
ConfirmTxErrorDropped(fault) ==
    [err |-> Nil, call |-> Call("chain.Confirm", Nil, <<>>, fault = "Confirm")]

\* _, err = chain.Confirm(tx) and the error AddCapabilities makes of it
ConfirmTx(fault) ==
    IF fault = "Confirm"
    THEN [err |-> "failed to confirm AddCapabilities confirm transaction",
          call |-> Call("chain.Confirm", Nil, <<>>, TRUE)]
    ELSE [err |-> Nil, call |-> Call("chain.Confirm", Nil, <<>>, FALSE)]

\* AddCapabilitiesBatch with one operation per capability
AddCapabilitiesBatchPerCapability(chainSel, deduped) ==
    PtrTo([ChainIdentifier |-> chainSel,
           Batch |-> [i \in 1..Len(deduped) |->
                        Operation(RegistryAddress, "AddCapabilities", <<deduped[i]>>)]])

\* AddCapabilitiesBatch that leaves the batch nil
AddCapabilitiesBatchNil(chainSel, deduped) == NoBatch

\* batch = &timelock.BatchChainOperation{...}: one operation on the registry
AddCapabilitiesBatch(chainSel, deduped) ==
    PtrTo([ChainIdentifier |-> chainSel,
           Batch |-> <<Operation(RegistryAddress, "AddCapabilities", deduped)>>])

\* AddCapabilities(lggr, contractSet, chain, capabilities, useMCMS): what it
\* returns (err, batch), the calls it makes on the registry and the chain, and
\* the registered set afterwards. fault names the call that fails, if any.
AddCapabilities(registered, chainSel, capabilities, useMCMS, fault) ==
    IF Len(capabilities) = 0
    THEN [err |-> Nil, batch |-> NoBatch, calls |-> <<>>, registered |-> registered]
    ELSE
    LET d == dedupCapabilities(registered, capabilities, fault)
        deduped == d.out
        txOpts == TxOpts(useMCMS)
        tx == RegistryAddCapabilities(registered, txOpts, deduped, fault)
        submit == Call("registry.AddCapabilities", txOpts, deduped, tx.failed)
        \* a transaction that was sent takes effect unless it is not mined
        after == IF tx.sent /\ fault # "Confirm"
                 THEN AddCapabilitiesOnchain(registered, deduped).registered
                 ELSE registered
    IN  IF d.err # Nil
        THEN [err |-> "failed to dedup capabilities", batch |-> NoBatch, calls |-> <<>>,
              registered |-> registered]
        ELSE IF tx.failed
        THEN [err |-> "failed to add capabilities", batch |-> NoBatch, calls |-> <<submit>>,
              registered |-> registered]
        ELSE IF ~useMCMS
        THEN [err |-> ConfirmTx(fault).err, batch |-> NoBatch,
              calls |-> <<submit, ConfirmTx(fault).call>>, registered |-> after]
        ELSE [err |-> Nil, batch |-> AddCapabilitiesBatch(chainSel, deduped),
              calls |-> <<submit>>, registered |-> after]

(***************************************************************************)
(* The changeset built on AddCapabilities, and the execution of proposals  *)
(***************************************************************************)
Nodes == {"p2p_1"}

\* UpdateNodesBatch that puts its operation first
UpdateNodesBatchPrepend(ops, chainSel, updates) ==
    LET op == Operation(RegistryAddress, "UpdateNodes", updates)
    IN  IF ops = NoBatch
        THEN PtrTo([ChainIdentifier |-> chainSel, Batch |-> <<op>>])
        ELSE PtrTo([ops[1] EXCEPT !.Batch = <<op>> \o @])

\* UpdateNodes of the changeset: in batched mode the update-nodes operation is
\* appended to the batch AddCapabilities returned (a new batch if it returned
\* none); in direct mode it is sent and confirmed.
UpdateNodesBatch(ops, chainSel, updates) ==
    LET op == Operation(RegistryAddress, "UpdateNodes", updates)
    IN  IF ops = NoBatch
        THEN PtrTo([ChainIdentifier |-> chainSel, Batch |-> <<op>>])
        ELSE PtrTo([ops[1] EXCEPT !.Batch = Append(@, op)])

\* the capabilities of all peers of the request, as one list
RECURSIVE Flatten(_, _)
Flatten(p2pToCapabilities, peers) ==
    IF peers = {} THEN <<>>
    ELSE LET p == CHOOSE q \in peers : TRUE
         IN  p2pToCapabilities[p] \o Flatten(p2pToCapabilities, peers \ {p})

\* an append that replaces each peer's capability ids by the new ones
AppendCapabilitiesReplacing(nodes, p2pToCapabilities) ==
    [p \in DOMAIN p2pToCapabilities |-> { HashOf(c) : c \in Range(p2pToCapabilities[p]) }]

\* each peer's capability ids after the append: the ones it had and the new ones
AppendCapabilities(nodes, p2pToCapabilities) ==
    [p \in DOMAIN p2pToCapabilities |-> nodes[p] \cup { HashOf(c) : c \in Range(p2pToCapabilities[p]) }]

\* AppendNodeCapabilities(env, req): the AddCapabilities call it makes, its
\* error, the proposals of its output, and the chain state afterwards.
AppendNodeCapabilities(registered, nodes, p2pToCapabilities, useMCMS, fault) ==
    LET capabilities == Flatten(p2pToCapabilities, DOMAIN p2pToCapabilities)
        add == AddCapabilities(registered, RegistryChainSel, capabilities, useMCMS, fault)
        updates == AppendCapabilities(nodes, p2pToCapabilities)
        batch == UpdateNodesBatch(add.batch, RegistryChainSel, updates)
    IN  IF add.err # Nil
        THEN [add |-> add, err |-> add.err, Proposals |-> <<>>,
              registered |-> add.registered, nodes |-> nodes]
        ELSE IF fault = "UpdateNodes"
        THEN [add |-> add, err |-> "failed to update nodes", Proposals |-> <<>>,
              registered |-> add.registered, nodes |-> nodes]
        ELSE IF useMCMS
        THEN [add |-> add, err |-> Nil, Proposals |-> <<[Transactions |-> batch]>>,
              registered |-> add.registered, nodes |-> nodes]
        ELSE [add |-> add, err |-> Nil, Proposals |-> <<>>,
              registered |-> add.registered,
              nodes |-> [p \in Nodes |-> IF p \in DOMAIN updates THEN updates[p] ELSE nodes[p]]]

\* the timelock executing one batch: its operations run in order in one
\* transaction, and a revert of any of them aborts the whole batch.
RECURSIVE ExecuteBatch(_, _)
ExecuteBatch(st, ops) ==
    IF ~st.ok \/ Len(ops) = 0 THEN st
    ELSE LET op == Head(ops)
         IN  IF op.Data.method = "AddCapabilities"
             THEN LET r == AddCapabilitiesOnchain(st.registered, op.Data.args)
                  IN  IF r.ok
                      THEN ExecuteBatch([st EXCEPT !.registered = r.registered], Tail(ops))
                      ELSE [st EXCEPT !.ok = FALSE, !.reason = "CapabilityAlreadyExists"]
             ELSE ExecuteBatch(
                      [st EXCEPT !.nodes = [p \in Nodes |->
                            IF p \in DOMAIN op.Data.args THEN op.Data.args[p] ELSE st.nodes[p]]],
                      Tail(ops))

(***************************************************************************)
(* Deployment orchestration: environments, address books, deployer steps   *)
(***************************************************************************)
Chains == {"chainA", "chainB"}

HomeChainSel == "chainA"

\* a selector that e.Chains does not hold
UnknownSel == "chainX"

NoError == <<>>

\* the records deployCCIPContracts assumes on the home chain
HomeTags == {"CapabilitiesRegistry 1.0.0", "CCIPHome 1.6.0-dev", "RMNHome 1.6.0-dev"}

\* the record the MCMS changeset leaves on a chain
TimelockTag == "RBACTimelock 1.0.0"

USDCTags ==
    <<"USDCToken 1.0.0", "USDCMockTransmitter 1.0.0",
      "USDCTokenMessenger 1.0.0", "USDCTokenPool 1.0.0">>

\* one step of a deployer: a deployment of tv (assigned to the deployer's local
\* variable when assigned), a read, a transaction, or the USDC deployment
Step(step, kind, tv, assigned) ==
    [step |-> step, kind |-> kind, tv |-> tv, assigned |-> assigned]

\* deployPrerequisiteContracts with the registry module ahead of the token admin registry
PrerequisiteStepsModuleFirst ==
    << Step("MockRMN", "deploy", "MockRMN 1.0.0", FALSE),
       Step("RMNProxyExisting", "deploy", "ARMProxy 1.0.0", TRUE),
       Step("RegistryModule", "deploy", "RegistryModuleOwnerCustom 1.5.0", TRUE),
       Step("TokenAdminRegistry", "deploy", "TokenAdminRegistry 1.5.0", TRUE),
       Step("IsRegistryModule", "read", Nil, FALSE),
       Step("AddRegistryModule", "tx", Nil, FALSE),
       Step("WETH9", "deploy", "WETH9 1.0.0", TRUE),
       Step("LinkToken", "deploy", "LinkToken 1.0.0", FALSE),
       Step("Router", "deploy", "Router 1.2.0", TRUE),
       Step("Multicall3", "deploy", "Multicall3 1.0.0", FALSE),
       Step("DeployUSDC", "usdc", Nil, FALSE) >>

\* the steps of deployPrerequisiteContracts, in the order of the code
PrerequisiteSteps ==
    << Step("MockRMN", "deploy", "MockRMN 1.0.0", FALSE),
       Step("RMNProxyExisting", "deploy", "ARMProxy 1.0.0", TRUE),
       Step("TokenAdminRegistry", "deploy", "TokenAdminRegistry 1.5.0", TRUE),
       Step("RegistryModule", "deploy", "RegistryModuleOwnerCustom 1.5.0", TRUE),
       Step("IsRegistryModule", "read", Nil, FALSE),
       Step("AddRegistryModule", "tx", Nil, FALSE),
       Step("WETH9", "deploy", "WETH9 1.0.0", TRUE),
       Step("LinkToken", "deploy", "LinkToken 1.0.0", FALSE),
       Step("Router", "deploy", "Router 1.2.0", TRUE),
       Step("Multicall3", "deploy", "Multicall3 1.0.0", FALSE),
       Step("DeployUSDC", "usdc", Nil, FALSE) >>

\* the steps of deployChainContracts after its checks, in the order of the code
ChainSteps ==
    << Step("CCIPReceiver", "deploy", "CCIPReceiver 1.0.0", FALSE),
       Step("RMNRemote", "deploy", "RMNRemote 1.6.0-dev", TRUE),
       Step("GetActiveDigest", "read", Nil, FALSE),
       Step("RMNRemote.SetConfig", "tx", Nil, FALSE),
       Step("RMNProxyNew", "deploy", "ARMProxy 1.6.0-dev", TRUE),
       Step("TestRouter", "deploy", "TestRouter 1.2.0", FALSE),
       Step("NonceManager", "deploy", "NonceManager 1.6.0-dev", TRUE),
       Step("FeeQuoter", "deploy", "FeeQuoter 1.6.0-dev", TRUE),
       Step("OnRamp", "deploy", "OnRamp 1.6.0-dev", TRUE),
       Step("OffRamp", "deploy", "OffRamp 1.6.0-dev", TRUE),
       Step("FeeQuoter.ApplyAuthorizedCallerUpdates", "tx", Nil, FALSE),
       Step("NonceManager.ApplyAuthorizedCallerUpdates", "tx", Nil, FALSE) >>

Steps(kind) == IF kind = "prerequisite" THEN PrerequisiteSteps ELSE ChainSteps

DeployedTags(steps) == { steps[k].tv : k \in { n \in 1..Len(steps) : steps[n].kind = "deploy" } }

PrerequisiteTags == DeployedTags(PrerequisiteSteps)

ChainTags == DeployedTags(ChainSteps)

Tags == HomeTags \cup {TimelockTag} \cup Range(USDCTags) \cup PrerequisiteTags \cup ChainTags

\* the records deployChainContracts requires before it deploys anything
RequiredTags ==
    <<"WETH9 1.0.0", TimelockTag, "LinkToken 1.0.0", "TokenAdminRegistry 1.5.0",
      "RegistryModuleOwnerCustom 1.5.0", "Router 1.2.0">>

FeeTokenTags == {"LinkToken 1.0.0", "WETH9 1.0.0"}

\* an address book: per chain, the bag of the types and versions of its records
EmptyBook == [c \in Chains |-> EmptyBag]

BookOf(tagsOf) == [c \in Chains |-> SetToBag(tagsOf[c])]

\* AddressBook.Save: one more record of tv on chain c
Save(book, c, tv) == [book EXCEPT ![c] = @ (+) SetToBag({tv})]

\* AddressBook.Merge: the records of other join those of book
Merge(book, other) == [c \in Chains |-> book[c] (+) other[c]]

Records(book, c) == BagToSet(book[c])

\* LoadOnchainState: a chain is in the state when the book holds a record of it,
\* and a field of its state is set when the book holds a record of its type
ChainExists(book, c) == Records(book, c) # {}

ChainState(book, c) == Records(book, c)

\* DeployUSDC: the four USDC programs in turn, stopping at the first failure;
\* k of them are deployed and recorded
RECURSIVE DeployUSDC(_, _, _)
DeployUSDC(book, c, k) ==
    IF k = 0 THEN book ELSE Save(DeployUSDC(book, c, k - 1), c, USDCTags[k])

\* what the programs of a chain hold, beyond their existence
Facts ==
    {"RegistryModuleAdded", "RMNRemoteConfig", "FeeQuoterCallers", "NonceManagerCallers",
     "CCIPCapabilityId", "CCIPHomeConfigured"}

\* the fact a confirmed transaction establishes
Establishes(step) ==
    CASE step = "AddRegistryModule" -> {"RegistryModuleAdded"}
      [] step = "RMNRemote.SetConfig" -> {"RMNRemoteConfig"}
      [] step = "FeeQuoter.ApplyAuthorizedCallerUpdates" -> {"FeeQuoterCallers"}
      [] step = "NonceManager.ApplyAuthorizedCallerUpdates" -> {"NonceManagerCallers"}
      [] OTHER -> {}

DeployPrerequisiteContractsOpts(usdc, mc3) ==
    [USDCEnabledChains |-> usdc, Multicall3Enabled |-> mc3]

\* a deployer that leaves the authorized callers alone
ExecutesNoWiring(kind, s, have, opts, c, facts) ==
    IF s.step = "MockRMN" THEN "ARMProxy 1.0.0" \notin have
    ELSE IF s.step = "Multicall3" THEN opts.Multicall3Enabled /\ s.tv \notin have
    ELSE IF s.step = "DeployUSDC"
         THEN \E i \in 1..Len(opts.USDCEnabledChains) : opts.USDCEnabledChains[i] = c
    ELSE IF s.step = "AddRegistryModule" THEN "RegistryModuleAdded" \notin facts
    ELSE IF s.step \in {"FeeQuoter.ApplyAuthorizedCallerUpdates",
                        "NonceManager.ApplyAuthorizedCallerUpdates"} THEN FALSE
    ELSE IF s.kind = "deploy" THEN s.tv \notin have
    ELSE TRUE

\* a deployer that submits AddRegistryModule without looking at IsRegistryModule
ExecutesAlwaysAdds(kind, s, have, opts, c, facts) ==
    IF s.step = "MockRMN" THEN "ARMProxy 1.0.0" \notin have
    ELSE IF s.step = "Multicall3" THEN opts.Multicall3Enabled /\ s.tv \notin have
    ELSE IF s.step = "DeployUSDC"
         THEN \E i \in 1..Len(opts.USDCEnabledChains) : opts.USDCEnabledChains[i] = c
    ELSE IF s.kind = "deploy" THEN s.tv \notin have
    ELSE TRUE

\* a deployer that deploys the optional programs whatever its options
ExecutesUnflagged(kind, s, have, opts, c, facts) ==
    IF s.step = "MockRMN" THEN "ARMProxy 1.0.0" \notin have
    ELSE IF s.step = "DeployUSDC" THEN TRUE
    ELSE IF s.step = "AddRegistryModule" THEN "RegistryModuleAdded" \notin facts
    ELSE IF s.kind = "deploy" THEN s.tv \notin have
    ELSE TRUE

\* whether the deployer executes step s, given its local variables (have), the
\* options and the chain's on-chain facts
Executes(kind, s, have, opts, c, facts) ==
    IF s.step = "MockRMN" THEN "ARMProxy 1.0.0" \notin have
    ELSE IF s.step = "Multicall3" THEN opts.Multicall3Enabled /\ s.tv \notin have
    ELSE IF s.step = "DeployUSDC"
         THEN \E i \in 1..Len(opts.USDCEnabledChains) : opts.USDCEnabledChains[i] = c
    ELSE IF s.step = "AddRegistryModule" THEN "RegistryModuleAdded" \notin facts
    ELSE IF s.kind = "deploy" THEN s.tv \notin have
    ELSE TRUE

\* the next step at or after pc that the deployer executes, Len + 1 if none
RECURSIVE NextStep(_, _, _, _, _, _)
NextStep(kind, pc, have, opts, c, facts) ==
    IF pc > Len(Steps(kind)) THEN pc
    ELSE IF Executes(kind, Steps(kind)[pc], have, opts, c, facts) THEN pc
    ELSE NextStep(kind, pc + 1, have, opts, c, facts)

VARIABLES
    registry,   \* hashed ids of the capabilities registered on chain
    nodeCaps,   \* each node's hashed capability ids on chain
    proposals,  \* the proposals produced and not yet executed
    last,       \* the latest event: a call and what it returned, or an execution
    dedup       \* the last call of dedupCapabilities on its own

VARIABLES
    existing,   \* e.ExistingAddresses, the address book the state is loaded from
    ab,         \* the address book a run writes its new records to
    onchain,    \* the facts the programs of each chain hold
    task,       \* the per-chain task of the running coordinator
    coord       \* the fan-out coordinator and its caller

VARIABLES
    aggregator, \* the PushAggregator contract: its owner, oracles, rounds and answers
    link,       \* the LINK balance of every account
    tx          \* the latest transaction sent to the aggregator and whether it reverted

capVars == <<registry, nodeCaps, proposals, last, dedup>>

deployVars == <<existing, ab, onchain, task, coord>>

aggVars == <<aggregator, link, tx>>

vars ==
    <<registry, nodeCaps, proposals, last, dedup, existing, ab, onchain, task, coord,
      aggregator, link, tx>>

\* no transaction was sent to the aggregator
NoTx == [fn |-> "none", from |-> "none", account |-> "none", amount |-> 0, round |-> 0,
         reverted |-> FALSE]

\* the aggregator is not deployed
AggregatorAbsent ==
    /\ aggregator = [deployed |-> FALSE]
    /\ link = [a \in {} |-> 0]
    /\ tx = NoTx

NoCall == [kind |-> "none"]

IdleTask == [status |-> "idle", pc |-> 1, have |-> {}, ran |-> <<>>, err |-> NoError]

NoRun == [kind |-> "none", opts |-> DeployPrerequisiteContractsOpts(<<>>, FALSE), ok |-> FALSE]

NewChainsConfig(homeChainSel, chainsToDeploy, secretsEmpty) ==
    [HomeChainSel |-> homeChainSel, ChainsToDeploy |-> chainsToDeploy,
     OCRSecretsEmpty |-> secretsEmpty]

\* configureChain has not been called
NoConfig ==
    [called |-> FALSE, c |-> NewChainsConfig(HomeChainSel, <<>>, FALSE), nodes |-> {},
     err |-> NoError, calls |-> <<>>]

\* no invocation of deployCCIPContracts has failed
NoRetry == [failed |-> FALSE, merged |-> FALSE, ab |-> EmptyBook]

IdleCoord ==
    [kind |-> "none", status |-> "idle", selectors |-> <<>>, i |-> 1,
     opts |-> DeployPrerequisiteContractsOpts(<<>>, FALSE),
     firstErr |-> NoError, result |-> NoError, via |-> "none", runs |-> 0, prev |-> NoRun,
     config |-> NoConfig, retry |-> NoRetry]

\* no deployment is running and none has run
DeployIdle ==
    /\ existing = EmptyBook
    /\ ab = EmptyBook
    /\ onchain = [c \in Chains |-> {}]
    /\ task = [c \in Chains |-> IdleTask]
    /\ coord = IdleCoord

(***************************************************************************)
(* dedupCapabilities on its own: every registry content, every request     *)
(***************************************************************************)
DedupFaults == {"none", "GetCapabilities", "GetHashedCapabilityId"}

DedupInit ==
    /\ registry \in SUBSET HashedIds
    /\ nodeCaps = [p \in Nodes |-> {}]
    /\ proposals = <<>>
    /\ last = NoCall
    /\ dedup = [phase |-> "idle"]
    /\ DeployIdle
    /\ AggregatorAbsent

DedupCall(capabilities, fault) ==
    /\ dedup.phase = "idle"
    /\ dedup' = [phase |-> "done", request |-> capabilities, existing |-> registry,
                 fault |-> fault, result |-> dedupCapabilities(registry, capabilities, fault)]
    /\ UNCHANGED <<registry, nodeCaps, proposals, last>>
    /\ UNCHANGED <<deployVars, aggVars>>

DedupNext ==
    \E capabilities \in SeqsUpTo(Descriptors, MaxLen), fault \in DedupFaults :
        DedupCall(capabilities, fault)

SpecDedup == DedupInit /\ [][DedupNext]_vars

(***************************************************************************)
(* Calls of AddCapabilities and of the changeset, and what they return     *)
(***************************************************************************)
CapInit ==
    /\ registry = {}
    /\ nodeCaps = [p \in Nodes |-> {}]
    /\ proposals = <<>>
    /\ last = NoCall
    /\ dedup = [phase |-> "idle"]
    /\ DeployIdle
    /\ AggregatorAbsent

\* a caller invokes AddCapabilities and gets its batch and error back
AddCapabilitiesCall(capabilities, useMCMS, fault) ==
    LET r == AddCapabilities(registry, RegistryChainSel, capabilities, useMCMS, fault)
    IN  /\ registry' = r.registered
        /\ last' = [kind |-> "AddCapabilities", useMCMS |-> useMCMS,
                    request |-> capabilities, before |-> registry,
                    nodesBefore |-> nodeCaps, add |-> r,
                    err |-> r.err, Proposals |-> <<>>, fault |-> fault]
        /\ UNCHANGED <<nodeCaps, proposals, dedup>>
        /\ UNCHANGED <<deployVars, aggVars>>

\* a caller invokes the changeset and inspects its output
AppendNodeCapabilitiesCall(p2pToCapabilities, useMCMS, fault) ==
    LET r == AppendNodeCapabilities(registry, nodeCaps, p2pToCapabilities, useMCMS, fault)
    IN  /\ registry' = r.registered
        /\ nodeCaps' = r.nodes
        /\ last' = [kind |-> "AppendNodeCapabilities", useMCMS |-> useMCMS,
                    request |-> Flatten(p2pToCapabilities, DOMAIN p2pToCapabilities),
                    before |-> registry, nodesBefore |-> nodeCaps, add |-> r.add,
                    err |-> r.err, Proposals |-> r.Proposals, fault |-> fault]
        /\ UNCHANGED <<proposals, dedup>>
        /\ UNCHANGED <<deployVars, aggVars>>

Requests == SeqsUpTo(FlowDescriptors, MaxReq)

\* one list for a nonempty set of peers, as the changeset's callers give it
NodeRequests ==
    { [p \in peers |-> caps] : peers \in (SUBSET Nodes) \ {{}}, caps \in Requests \ {<<>>} }

\* the mode of a call and the call of it that fails, if any
Modes ==
    { <<m, f>> \in BOOLEAN \X (AddFaults \cup {"UpdateNodes"}) : m => f # "Confirm" }

CallNext ==
    \/ \E capabilities \in Requests, m \in Modes :
          m[2] # "UpdateNodes" /\ AddCapabilitiesCall(capabilities, m[1], m[2])
    \/ \E req \in NodeRequests, m \in Modes :
          AppendNodeCapabilitiesCall(req, m[1], m[2])

SpecCall == CapInit /\ [][CallNext]_vars

(***************************************************************************)
(* Proposals and their execution                                           *)
(***************************************************************************)
\* a pending proposal, with whether the registry changed since it was produced
Pending(proposal, request, nodes) ==
    [proposal |-> proposal, changedSince |-> FALSE, request |-> request, nodesAtCall |-> nodes]

MarkChanged(ps, changed) ==
    [i \in 1..Len(ps) |-> [ps[i] EXCEPT !.changedSince = @ \/ changed]]

\* no request is remembered with the proposal
NoRequest == [p \in {} |-> <<>>]

\* the changeset is applied: in direct mode it takes effect, in batched mode
\* its proposals wait for execution; remembered tells whether the request and
\* the nodes' capabilities at the call are kept with the event and the proposals
ApplyChangeset(p2pToCapabilities, useMCMS, remembered) ==
    LET r == AppendNodeCapabilities(registry, nodeCaps, p2pToCapabilities, useMCMS, "none")
        request == IF remembered THEN p2pToCapabilities ELSE NoRequest
        nodes == IF remembered THEN nodeCaps ELSE [p \in Nodes |-> {}]
        new == [i \in 1..Len(r.Proposals) |-> Pending(r.Proposals[i], request, nodes)]
    IN  /\ Len(proposals) + Len(new) <= MaxPending
        /\ registry' = r.registered
        /\ nodeCaps' = r.nodes
        /\ proposals' = MarkChanged(proposals, r.registered # registry) \o new
        /\ last' = [kind |-> "Apply", useMCMS |-> useMCMS,
                    request |-> request, nodesAtCall |-> nodes]
        /\ UNCHANGED dedup
        /\ UNCHANGED <<deployVars, aggVars>>

ApplyAppendNodeCapabilities(p2pToCapabilities, useMCMS) ==
    ApplyChangeset(p2pToCapabilities, useMCMS, FALSE)

\* the changeset is applied while no proposal of it waits for execution
ApplyAndValidate(p2pToCapabilities, useMCMS) ==
    /\ useMCMS => proposals = <<>>
    /\ ApplyChangeset(p2pToCapabilities, useMCMS, TRUE)

\* an external actor executes the i-th pending proposal
ExecuteProposal(i) ==
    LET p == proposals[i]
        batch == p.proposal.Transactions[1].Batch
        st == ExecuteBatch([ok |-> TRUE, reason |-> Nil, registered |-> registry,
                            nodes |-> nodeCaps], batch)
        rest == [j \in 1..(Len(proposals) - 1) |-> IF j < i THEN proposals[j] ELSE proposals[j + 1]]
    IN  /\ registry' = IF st.ok THEN st.registered ELSE registry
        /\ nodeCaps' = IF st.ok THEN st.nodes ELSE nodeCaps
        /\ proposals' = MarkChanged(rest, st.ok /\ st.registered # registry)
        /\ last' = [kind |-> "Execute", aborted |-> ~st.ok, reason |-> st.reason,
                    batch |-> batch, changedSince |-> p.changedSince,
                    request |-> p.request, nodesAtCall |-> p.nodesAtCall]
        /\ UNCHANGED dedup
        /\ UNCHANGED <<deployVars, aggVars>>

CapNext ==
    \/ \E req \in NodeRequests, useMCMS \in BOOLEAN : ApplyAppendNodeCapabilities(req, useMCMS)
    \/ \E i \in 1..Len(proposals) : ExecuteProposal(i)

SpecCap == CapInit /\ [][CapNext]_vars

\* requests applied in direct mode, and one at a time in batched mode
AppendNext ==
    \/ \E req \in NodeRequests, useMCMS \in BOOLEAN : ApplyAndValidate(req, useMCMS)
    \/ \E i \in 1..Len(proposals) : ExecuteProposal(i)

SpecAppend == CapInit /\ [][AppendNext]_vars

(***************************************************************************)
(* Properties of dedupCapabilities                                         *)
(***************************************************************************)
SameCapability(c, d) == c.LabelledName = d.LabelledName /\ c.Version = d.Version

\* the requested descriptors that are not registered and repeat no earlier one
RECURSIVE DistinctUnregistered(_, _, _)
DistinctUnregistered(registered, caps, i) ==
    IF i > Len(caps) THEN <<>>
    ELSE LET keep == /\ HashOf(caps[i]) \notin registered
                     /\ \A j \in 1..(i - 1) : ~SameCapability(caps[j], caps[i])
         IN  (IF keep THEN <<caps[i]>> ELSE <<>>) \o DistinctUnregistered(registered, caps, i + 1)

\* C1: dedupCapabilities returns exactly the requested descriptors that are not
\* registered, each distinct (name, version) once, the first occurrence, in the
\* original relative order.
C1_DedupExact ==
    (dedup.phase = "done" /\ dedup.result.err = Nil)
        => dedup.result.out = DistinctUnregistered(dedup.existing, dedup.request, 1)

(***************************************************************************)
(* Properties of AddCapabilities and of the batches it produces            *)
(***************************************************************************)
IsCall == last.kind \in {"AddCapabilities", "AppendNodeCapabilities"}

\* the lists handed to registry.AddCapabilities in the last call
Handed == { c.args : c \in { d \in Range(last.add.calls) : d.fn = "registry.AddCapabilities" } }

NoRepeat(caps) == \A i, j \in 1..Len(caps) : HashOf(caps[i]) = HashOf(caps[j]) => i = j

\* C2: the list handed to registry.AddCapabilities holds no capability twice
\* and none whose hash was in the registry when the call read it.
C2_HandedListClean ==
    IsCall => \A caps \in Handed :
                 /\ NoRepeat(caps)
                 /\ \A i \in 1..Len(caps) : HashOf(caps[i]) \notin last.before

C2_Witness ==
    /\ IsCall
    /\ \E i \in 1..Len(last.request) : HashOf(last.request[i]) \in last.before
    /\ \E caps \in Handed : Len(caps) > 0 /\ Len(caps) < Len(last.request)

AbortedOnReRegistration ==
    last.kind = "Execute" /\ last.aborted /\ last.reason = "CapabilityAlreadyExists"

\* C3 as claimed: under any interleaving of batched calls, direct calls and
\* executions, no batch aborts for registering a registered capability.
C3_NoBatchAborts == ~AbortedOnReRegistration

\* C3 as amended: a batch aborts for re-registration only if the registry
\* changed between the call that produced the batch and its execution.
C3_AbortOnlyIfRegistryChanged == AbortedOnReRegistration => last.changedSince

C3_Witness ==
    /\ last.kind = "Execute"
    /\ ~last.aborted
    /\ ~last.changedSince
    /\ Len(last.batch[1].Data.args) > 0

BatchedCall == IsCall /\ last.useMCMS

\* C5: in batched mode AddCapabilities uses the simulated options, confirms
\* nothing, and leaves the registered capabilities and the nodes' capabilities
\* as they were.
C5_BatchedModeNoEffect ==
    BatchedCall =>
        /\ \A c \in Range(last.add.calls) :
              /\ c.fn # "chain.Confirm"
              /\ c.fn = "registry.AddCapabilities" => c.txOpts = "SimTransactOpts"
        /\ registry = last.before
        /\ nodeCaps = last.nodesBefore

C5_Witness ==
    /\ BatchedCall
    /\ last.err = Nil
    /\ \E caps \in Handed : Len(caps) > 0
    /\ Len(last.Proposals) > 0
    /\ registry # {}

Methods(batch) == [i \in 1..Len(batch) |-> batch[i].Data.method]

C7_BatchKeepsCallOrder ==
    \A i \in 1..Len(proposals) :
        \A t \in Range(proposals[i].proposal.Transactions) :
            \A j, k \in 1..Len(t.Batch) :
                (t.Batch[j].Data.method = "AddCapabilities" /\ t.Batch[k].Data.method = "UpdateNodes")
                    => j < k

C7_Witness ==
    \E i \in 1..Len(proposals) :
        Methods(proposals[i].proposal.Transactions[1].Batch) = <<"AddCapabilities", "UpdateNodes">>

DirectCall == IsCall /\ ~last.useMCMS

\* C8: in direct mode AddCapabilities submits with the deployer key, returns
\* success only after chain.Confirm succeeded, returns an error when the
\* submission or the confirmation failed, and never returns a batch.
C8_DirectModeConfirmed ==
    DirectCall =>
        /\ \A c \in Range(last.add.calls) :
              /\ c.fn = "registry.AddCapabilities" => c.txOpts = "DeployerKey"
              /\ c.failed => last.add.err # Nil
        /\ (last.add.err = Nil /\ Len(last.add.calls) > 0) =>
              /\ Len(last.add.calls) = 2
              /\ last.add.calls[1].fn = "registry.AddCapabilities"
              /\ last.add.calls[2].fn = "chain.Confirm"
              /\ ~last.add.calls[2].failed
        /\ last.add.batch = NoBatch
        /\ last.Proposals = <<>>

C8_Witness ==
    /\ DirectCall
    /\ last.add.err = Nil
    /\ Len(last.add.calls) = 2
    /\ registry # last.before


(***************************************************************************)
(* The per-chain deployers and the fan-out coordinators                    *)
(***************************************************************************)
StepError(c, step) == <<c, step>>

\* the closure of deployChainContractsForChains wraps the deployer's error
WrapChainError(c, err) == <<"failed to deploy chain contracts for chain", c>> \o err

TaskError(kind, c, err) == IF kind = "chain" THEN WrapChainError(c, err) ELSE err

Running(t) == t.status \in {"started", "running"}

\* errgroup.Wait returns once every goroutine started with Go has returned
WaitReady(tasks) == \A c \in Chains : ~Running(tasks[c])

\* errgroup keeps the error of the first goroutine that returns one
FirstError(firstErr, err) == IF firstErr = NoError THEN err ELSE firstErr

Panic == <<"panic: nil pointer dereference">>

HomeFaults == {"none", "LoadOnchainState", "GetHashedCapabilityId", "GetCapability", "NewCCIPHome"}

\* the checks of deployChainContractsForChains on the home chain, before its loop
HomeCheck(book, facts, homeChainSel, fault) ==
    LET home == ChainState(book, homeChainSel)
    IN  IF fault = "LoadOnchainState" THEN <<fault>>
        ELSE IF "CapabilitiesRegistry 1.0.0" \notin home THEN <<"capability registry not found">>
        ELSE IF fault = "GetHashedCapabilityId" THEN <<fault>>
        ELSE IF "CCIPCapabilityId" \notin facts[homeChainSel]
             THEN <<"unexpected mismatch between calculated ccip capability id and expected">>
        ELSE IF fault \in {"GetCapability", "NewCCIPHome"} THEN <<fault>>
        ELSE IF "CCIPHome 1.6.0-dev" \notin home THEN Panic
        ELSE IF "CCIPHomeConfigured" \notin facts[homeChainSel] THEN <<"ccip home address mismatch">>
        ELSE IF "RMNHome 1.6.0-dev" \notin home THEN <<"rmn home not found">>
        ELSE NoError

Returned(c, err, via) == [c EXCEPT !.status = "returned", !.result = err, !.via = via]

Looping(c) == [c EXCEPT !.status = IF Len(c.selectors) = 0 THEN "wait" ELSE "loop", !.i = 1]

\* deployPrerequisiteChainContracts up to its loop
deployPrerequisiteChainContracts(selectors, opts, fault) ==
    /\ coord.status = "idle"
    /\ LET c == [coord EXCEPT !.kind = "prerequisite", !.selectors = selectors, !.opts = opts]
       IN  coord' = IF fault = "LoadOnchainState"
                    THEN Returned(c, <<fault>>, "LoadOnchainState")
                    ELSE Looping(c)
    /\ UNCHANGED <<existing, ab, onchain, task>>
    /\ UNCHANGED <<capVars, aggVars>>

\* deployChainContractsForChains up to its loop
deployChainContractsForChains(homeChainSel, chainsToDeploy, fault) ==
    /\ coord.status = "idle"
    /\ LET c == [coord EXCEPT !.kind = "chain", !.selectors = chainsToDeploy]
           err == HomeCheck(existing, onchain, homeChainSel, fault)
       IN  coord' = IF err = Panic THEN [c EXCEPT !.status = "panicked", !.via = "home"]
                    ELSE IF err # NoError THEN Returned(c, err, "home")
                    ELSE Looping(c)
    /\ UNCHANGED <<existing, ab, onchain, task>>
    /\ UNCHANGED <<capVars, aggVars>>

\* one iteration of the coordinator's loop: deployGrp.Go for the next selector,
\* or for deployChainContractsForChains a return out of the loop
Go ==
    /\ coord.status = "loop"
    /\ LET sel == coord.selectors[coord.i]
           next == [coord EXCEPT !.i = @ + 1,
                                 !.status = IF coord.i = Len(coord.selectors) THEN "wait" ELSE "loop"]
       IN  IF coord.kind = "chain" /\ sel \notin Chains
           THEN /\ coord' = Returned(coord, <<"chain not found", sel>>, "loop")
                /\ task' = task
           ELSE IF coord.kind = "chain" /\ ~(FeeTokenTags \subseteq ChainState(existing, sel))
           THEN /\ coord' = Returned(coord, <<"fee tokens not found for chain", sel>>, "loop")
                /\ task' = task
           ELSE /\ coord' = next
                /\ task' = [task EXCEPT ![sel] = [IdleTask EXCEPT !.status = "started"]]
    /\ UNCHANGED <<existing, ab, onchain>>
    /\ UNCHANGED <<capVars, aggVars>>

\* deployGrp.Wait
Wait ==
    /\ coord.status = "wait"
    /\ WaitReady(task)
    /\ coord' = Returned(coord, coord.firstErr, "Wait")
    /\ UNCHANGED <<existing, ab, onchain, task>>
    /\ UNCHANGED <<capVars, aggVars>>

\* a deployer that records the error and goes on with its next step
FailAndContinue(c, err) ==
    /\ task' = [task EXCEPT ![c].err = TaskError(coord.kind, c, err), ![c].pc = @ + 1]
    /\ coord' = [coord EXCEPT !.firstErr = FirstError(@, TaskError(coord.kind, c, err))]

Fail(c, err) ==
    /\ task' = [task EXCEPT ![c].status = "failed", ![c].err = TaskError(coord.kind, c, err)]
    /\ coord' = [coord EXCEPT !.firstErr = FirstError(@, TaskError(coord.kind, c, err))]

Proceed(c, have, ran, facts) ==
    LET pc == NextStep(coord.kind, task[c].pc + 1, have, coord.opts, c, facts)
    IN  task' = [task EXCEPT ![c].pc = pc, ![c].have = have, ![c].ran = ran,
                             ![c].status = IF pc > Len(Steps(coord.kind)) THEN "done" ELSE "running"]

\* a check of the required records that finds none missing
FirstMissingNone(state, i) == Nil

\* the first missing record among those deployChainContracts requires
RECURSIVE FirstMissing(_, _)
FirstMissing(state, i) ==
    IF i > Len(RequiredTags) THEN Nil
    ELSE IF RequiredTags[i] \notin state THEN RequiredTags[i]
    ELSE FirstMissing(state, i + 1)

\* a deployer starts: deployPrerequisiteContracts sets its local variables from
\* the loaded state, deployChainContracts loads the state and checks it
Begin(c, fault) ==
    /\ task[c].status = "started"
    /\ LET exists == ChainExists(existing, c)
           state == IF exists THEN ChainState(existing, c) ELSE {}
           first(have) == NextStep(coord.kind, 1, have, coord.opts, c, onchain[c])
           start(have) == [task EXCEPT ![c].status = "running", ![c].have = have,
                                       ![c].pc = first(have)]
       IN  IF coord.kind = "prerequisite"
           THEN /\ fault = "none"
                /\ task' = start(state \cap PrerequisiteTags)
                /\ coord' = coord
           ELSE IF fault = "LoadOnchainState" THEN Fail(c, <<fault>>)
           ELSE IF ~exists THEN Fail(c, <<"chain not found in existing state", c>>)
           ELSE IF FirstMissing(state, 1) # Nil THEN Fail(c, <<"not found", FirstMissing(state, 1), c>>)
           ELSE /\ task' = start(state)
                /\ coord' = coord
    /\ UNCHANGED <<existing, ab, onchain>>
    /\ UNCHANGED <<capVars, aggVars>>

\* a deployer that drops the contract it has deployed
AssignNothing(have, s) == have

\* the deployer's local variables after step s: the contract a deployment
\* returned is assigned to the local variable of its type
Assign(have, s) == IF s.kind = "deploy" /\ s.assigned THEN have \cup {s.tv} ELSE have

\* the deployer of chain c executes its next step, and the step succeeds
StepSucceeds(c) ==
    /\ task[c].status = "running"
    /\ LET s == Steps(coord.kind)[task[c].pc]
           have == Assign(task[c].have, s)
           facts == IF s.kind = "tx" THEN onchain[c] \cup Establishes(s.step) ELSE onchain[c]
       IN  /\ ab' = IF s.kind = "deploy" THEN Save(ab, c, s.tv)
                    ELSE IF s.kind = "usdc" THEN DeployUSDC(ab, c, Len(USDCTags))
                    ELSE ab
           /\ onchain' = [onchain EXCEPT ![c] = facts]
           /\ Proceed(c, have, Append(task[c].ran, s.step), facts)
    /\ UNCHANGED <<existing, coord>>
    /\ UNCHANGED <<capVars, aggVars>>

\* the deployer of chain c executes its next step, and the step fails; of the
\* USDC programs the first k were deployed
StepFails(c, k) ==
    /\ task[c].status = "running"
    /\ LET s == Steps(coord.kind)[task[c].pc]
       IN  /\ ab' = IF s.kind = "usdc" THEN DeployUSDC(ab, c, k) ELSE ab
           /\ s.kind # "usdc" => k = 0
           /\ Fail(c, StepError(c, s.step))
    /\ UNCHANGED <<existing, onchain>>
    /\ UNCHANGED <<capVars, aggVars>>

\* the caller of a coordinator that returned merges the new records into the
\* existing address book, and may run a coordinator again
MergeRun ==
    /\ coord.status = "returned"
    /\ WaitReady(task)
    /\ existing' = Merge(existing, ab)
    /\ ab' = EmptyBook
    /\ task' = [c \in Chains |-> IdleTask]
    /\ coord' = [IdleCoord EXCEPT !.runs = coord.runs + 1,
                                  !.prev = [kind |-> coord.kind, opts |-> coord.opts,
                                            ok |-> coord.result = NoError]]
    /\ UNCHANGED onchain
    /\ UNCHANGED <<capVars, aggVars>>

CapIdle ==
    /\ registry = {}
    /\ nodeCaps = [p \in Nodes |-> {}]
    /\ proposals = <<>>
    /\ last = NoCall
    /\ dedup = [phase |-> "idle"]

(***************************************************************************)
(* One coordinator run over two chains, from every stage of deployment     *)
(***************************************************************************)
Stages == {"empty", "prerequisites", "deployed", "complete"}

StageTags(stage) ==
    IF stage = "empty" THEN {}
    ELSE IF stage = "prerequisites"
         THEN (PrerequisiteTags \ {"Multicall3 1.0.0"}) \cup {TimelockTag}
    ELSE IF stage = "deployed"
         THEN (PrerequisiteTags \ {"Multicall3 1.0.0"}) \cup {TimelockTag} \cup ChainTags
    ELSE PrerequisiteTags \cup {TimelockTag} \cup ChainTags \cup Range(USDCTags)

StageFacts(stage) ==
    IF stage = "empty" THEN {}
    ELSE IF stage = "prerequisites" THEN {"RegistryModuleAdded"}
    ELSE {"RegistryModuleAdded", "RMNRemoteConfig", "FeeQuoterCallers", "NonceManagerCallers"}

\* what the home chain may lack
HomeCases ==
    {"ok", "CapabilitiesRegistry 1.0.0", "CCIPHome 1.6.0-dev", "RMNHome 1.6.0-dev",
     "CCIPCapabilityId", "CCIPHomeConfigured"}

HomeState(case) == HomeTags \ {case}

HomeFacts(case) == {"CCIPCapabilityId", "CCIPHomeConfigured"} \ {case}

Environment(stageOf, case) ==
    /\ existing = BookOf([c \in Chains |->
                     StageTags(stageOf[c]) \cup (IF c = HomeChainSel THEN HomeState(case) ELSE {})])
    /\ onchain = [c \in Chains |->
                     StageFacts(stageOf[c]) \cup (IF c = HomeChainSel THEN HomeFacts(case) ELSE {})]
    /\ ab = EmptyBook
    /\ task = [c \in Chains |-> IdleTask]
    /\ coord = IdleCoord

FanInit ==
    /\ CapIdle
    /\ AggregatorAbsent
    /\ \E stageOf \in [Chains -> Stages], case \in HomeCases :
          /\ case # "ok" => \A c \in Chains : stageOf[c] = "prerequisites"
          /\ Environment(stageOf, case)

\* lists of selectors without repetition
Selectors(S) == { s \in SeqsUpTo(S, Cardinality(S)) : \A i, j \in 1..Len(s) : i # j => s[i] # s[j] }

PrerequisiteOpts(S) ==
    { DeployPrerequisiteContractsOpts(usdc, mc3) : usdc \in {<<>>} \cup { <<c>> : c \in S }, mc3 \in BOOLEAN }

FanNext ==
    \/ \E selectors \in Selectors(Chains), opts \in PrerequisiteOpts(Chains),
          fault \in {"none", "LoadOnchainState"} :
          deployPrerequisiteChainContracts(selectors, opts, fault)
    \/ \E chainsToDeploy \in Selectors(Chains \cup {UnknownSel}), fault \in HomeFaults :
          /\ Len(chainsToDeploy) <= Cardinality(Chains)
          /\ deployChainContractsForChains(HomeChainSel, chainsToDeploy, fault)
    \/ Go
    \/ Wait
    \/ \E c \in Chains, fault \in {"none", "LoadOnchainState"} : Begin(c, fault)
    \/ \E c \in Chains : StepSucceeds(c)
    \/ \E c \in Chains, k \in 0..(Len(USDCTags) - 1) : StepFails(c, k)

SpecFan == FanInit /\ [][FanNext]_vars

(***************************************************************************)
(* Runs of the coordinators on one chain, one after the other, each merged *)
(* into the existing address book                                          *)
(***************************************************************************)
SeqChain == "chainB"

SeqInit ==
    /\ CapIdle
    /\ AggregatorAbsent
    /\ \E timelock \in BOOLEAN :
          /\ existing = BookOf([c \in Chains |->
                           IF c = HomeChainSel THEN HomeTags
                           ELSE IF timelock THEN {TimelockTag} ELSE {}])
          /\ onchain = [c \in Chains |-> IF c = HomeChainSel THEN HomeFacts("ok") ELSE {}]
          /\ ab = EmptyBook
          /\ task = [c \in Chains |-> IdleTask]
          /\ coord = IdleCoord

SeqNext ==
    \/ \E opts \in PrerequisiteOpts({SeqChain}), fault \in {"none", "LoadOnchainState"} :
          /\ coord.runs < MaxRuns
          /\ deployPrerequisiteChainContracts(<<SeqChain>>, opts, fault)
    \/ \E fault \in HomeFaults :
          /\ coord.runs < MaxRuns
          /\ deployChainContractsForChains(HomeChainSel, <<SeqChain>>, fault)
    \/ Go
    \/ Wait
    \/ \E fault \in {"none", "LoadOnchainState"} : Begin(SeqChain, fault)
    \/ StepSucceeds(SeqChain)
    \/ \E k \in 0..(Len(USDCTags) - 1) : StepFails(SeqChain, k)
    \/ MergeRun

SpecSeq == SeqInit /\ [][SeqNext]_vars


(***************************************************************************)
(* Properties of the deployers and the coordinators                        *)
(***************************************************************************)
Selected(c) == \E k \in 1..Len(coord.selectors) : coord.selectors[k] = c

\* the steps of the running deployer that deploy programs
DeploySteps ==
    { Steps(coord.kind)[k].step :
        k \in { n \in 1..Len(Steps(coord.kind)) : Steps(coord.kind)[n].kind \in {"deploy", "usdc"} } }

\* the programs the deployer of chain c deployed in this run
Deployed(c) == { k \in 1..Len(task[c].ran) : task[c].ran[k] \in DeploySteps }

\* the run follows a run of the same deployer with the same options that
\* succeeded and was merged into the existing address book
SecondRun ==
    /\ coord.kind # "none"
    /\ coord.prev.ok
    /\ coord.prev.kind = coord.kind
    /\ coord.prev.opts = coord.opts

\* C4: a second run of the per-chain deployer, after a first run that succeeded
\* and whose records were merged into the existing address book, deploys no
\* program and adds no record, whatever the options (USDC, Multicall3).
C4_SecondRunDeploysNothing ==
    SecondRun => /\ ab = EmptyBook
                 /\ \A c \in Chains : Deployed(c) = {}

\* C9: when a fan-out coordinator has returned to its caller, none of the tasks
\* it started is still running, whether it returned an error or not.
C9_ReturnsAfterAllTasks ==
    coord.status = "returned" => \A c \in Chains : ~Running(task[c])

\* every record a finished deployer needs is in the address books
Complete(c) ==
    \A k \in 1..Len(Steps(coord.kind)) :
        LET s == Steps(coord.kind)[k]
        IN  (s.kind = "deploy" /\ (s.step = "Multicall3" => coord.opts.Multicall3Enabled))
                => s.tv \in Records(existing, c) \cup Records(ab, c)

\* the address book holds a record for every program the deployer of c deployed
Recorded(c) ==
    \A k \in 1..Len(Steps(coord.kind)) :
        LET s == Steps(coord.kind)[k]
        IN  (s.kind = "deploy" /\ \E n \in 1..Len(task[c].ran) : task[c].ran[n] = s.step)
                => s.tv \in Records(ab, c)

Failed == { c \in Chains : task[c].status = "failed" }

\* C10: when the deployer of some chain i fails at a step, then under every
\* interleaving, once the coordinator has returned, every other selected chain j
\* has run its deployer to its own end (all of its steps when none of them
\* failed), the records of what j deployed are in the address book, and the
\* coordinator's result is the error of a chain that failed.
C10_FanOutIsolation ==
    (coord.status = "returned" /\ Failed # {}) =>
        /\ \A j \in Chains : Selected(j) =>
              /\ task[j].status \in {"done", "failed"}
              /\ task[j].status = "done" => Complete(j)
              /\ Recorded(j)
        /\ \E i \in Failed : coord.result = task[i].err


\* every task the request asks for has run its deployer to a successful end
AllSucceeded ==
    \A k \in 1..Len(coord.selectors) :
        coord.selectors[k] \in Chains /\ task[coord.selectors[k]].status = "done"

\* C11: a fan-out coordinator asked for at least one chain returns a nil error
\* if and only if every per-chain task succeeded, and when at least one task
\* has failed the error it returns is the error of the first task that failed.
C11_NilIffAllSucceeded ==
    (coord.status = "returned" /\ Len(coord.selectors) > 0) =>
        /\ (coord.result = NoError) <=> AllSucceeded
        /\ Failed # {} => coord.result = coord.firstErr


StepIndex(name) == CHOOSE k \in 1..Len(Steps(coord.kind)) : Steps(coord.kind)[k].step = name

\* the deployer of chain c has failed at the step its pc names, with that step's error
StepFailedAt(c) ==
    /\ task[c].status = "failed"
    /\ task[c].err = TaskError(coord.kind, c, StepError(c, Steps(coord.kind)[task[c].pc].step))

\* the deployer of chain c stopped at its failure, and what it deployed is recorded
StoppedAtFailure(c) ==
    /\ task[c].err # NoError => task[c].status = "failed"
    /\ (task[c].status = "failed" /\ task[c].ran # <<>>) => StepFailedAt(c)
    /\ StepFailedAt(c) =>
          /\ \A n \in 1..Len(task[c].ran) : StepIndex(task[c].ran[n]) < task[c].pc
          /\ Recorded(c)

\* a failed deployer executes nothing more, and no record leaves the address book
NoLaterStepNoRollback ==
    \A c \in Chains :
        /\ task[c].status = "failed" => task'[c] = task[c] /\ ab'[c] = ab[c]
        /\ \A tv \in Tags : CopiesIn(tv, ab'[c]) >= CopiesIn(tv, ab[c])

\* C12: within one chain, when a step of the deployer fails the deployer returns
\* that step's error and executes none of the later steps, and the records the
\* earlier steps wrote to the address book remain there (no rollback).
C12_FailureStopsKeepsRecords ==
    /\ [](\A c \in Chains : StoppedAtFailure(c))
    /\ [][NoLaterStepNoRollback]_vars

\* a deployer failed at a step after it had deployed programs
C12_Witness ==
    \E c \in Chains : StepFailedAt(c) /\ Deployed(c) # {} /\ Records(ab, c) # {}


\* chain c has a record of tv, merged or new
Has(c, tv) == tv \in Records(existing, c) \cup Records(ab, c)

\* on the chain of the runs, a is deployed before b: b is never there without a
Before(a, b) == Has(SeqChain, b) => Has(SeqChain, a)

\* C13 as claimed: on an initially empty chain the registry module is deployed
\* before the token admin registry, the token admin registry before the router,
\* the router before the fee quoter, the fee quoter before the on-ramp and the
\* off-ramp.
C13_ClaimedOrder ==
    /\ Before("RegistryModuleOwnerCustom 1.5.0", "TokenAdminRegistry 1.5.0")
    /\ Before("TokenAdminRegistry 1.5.0", "Router 1.2.0")
    /\ Before("Router 1.2.0", "FeeQuoter 1.6.0-dev")
    /\ Before("FeeQuoter 1.6.0-dev", "OnRamp 1.6.0-dev")
    /\ Before("FeeQuoter 1.6.0-dev", "OffRamp 1.6.0-dev")

\* C13: on an initially empty chain the token admin registry is deployed before
\* the registry module, the registry module before the router, the router
\* before the fee quoter, the fee quoter before the on-ramp and the off-ramp.
C13_DeployOrder ==
    /\ Before("TokenAdminRegistry 1.5.0", "RegistryModuleOwnerCustom 1.5.0")
    /\ Before("RegistryModuleOwnerCustom 1.5.0", "Router 1.2.0")
    /\ Before("Router 1.2.0", "FeeQuoter 1.6.0-dev")
    /\ Before("FeeQuoter 1.6.0-dev", "OnRamp 1.6.0-dev")
    /\ Before("FeeQuoter 1.6.0-dev", "OffRamp 1.6.0-dev")

\* both deployers have run on the chain, down to the off-ramp
C13_Witness ==
    /\ Has(SeqChain, "OffRamp 1.6.0-dev")
    /\ Has(SeqChain, "RegistryModuleOwnerCustom 1.5.0")


(***************************************************************************)
(* configureChain                                                          *)
(***************************************************************************)
NodeSets == {{}, {"node_1"}}

NoFault == <<"none">>

ConfigFaults ==
    {NoFault, <<"NodeInfo">>, <<"LoadOnchainState">>}
        \cup { <<fn, c>> : fn \in {"AddChainConfig", "AddDON"}, c \in Chains }

Invocation(fn, chainSel, failed) == [fn |-> fn, chain |-> chainSel, failed |-> failed]

\* the loop of configureChain over c.ChainsToDeploy, from its i-th chain; a
\* selector e.Chains does not hold gives the zero chain, which has no state
RECURSIVE configureChainLoop(_, _, _, _, _)
configureChainLoop(book, c, i, fault, calls) ==
    IF i > Len(c.ChainsToDeploy) THEN [err |-> NoError, calls |-> calls]
    ELSE LET chainSel == c.ChainsToDeploy[i]
             addChainConfig == Invocation("AddChainConfig", chainSel, fault = <<"AddChainConfig", chainSel>>)
             addDON == Invocation("AddDON", chainSel, fault = <<"AddDON", chainSel>>)
         IN  IF chainSel \notin Chains
             THEN [err |-> <<"chain state not found for chain", "0">>, calls |-> calls]
             ELSE IF ~ChainExists(book, chainSel)
             THEN [err |-> <<"chain state not found for chain", chainSel>>, calls |-> calls]
             ELSE IF "OffRamp 1.6.0-dev" \notin ChainState(book, chainSel)
             THEN [err |-> <<"off ramp not found for chain", chainSel>>, calls |-> calls]
             ELSE IF addChainConfig.failed
             THEN [err |-> fault, calls |-> Append(calls, addChainConfig)]
             ELSE IF addDON.failed
             THEN [err |-> fault, calls |-> calls \o <<addChainConfig, addDON>>]
             ELSE configureChainLoop(book, c, i + 1, fault, calls \o <<addChainConfig, addDON>>)

\* configureChain(e, c): its error and the mutating calls it made, in order
configureChain(book, nodes, c, fault) ==
    LET home == ChainState(book, c.HomeChainSel)
        fails(err) == [err |-> err, calls |-> <<>>]
    IN  IF c.OCRSecretsEmpty THEN fails(<<"OCR secrets are empty">>)
        ELSE IF fault = <<"NodeInfo">> THEN fails(fault)
        ELSE IF nodes = {} THEN fails(NoError)
        ELSE IF fault = <<"LoadOnchainState">> THEN fails(fault)
        ELSE IF "CapabilitiesRegistry 1.0.0" \notin home THEN fails(<<"capability registry not found">>)
        ELSE IF "CCIPHome 1.6.0-dev" \notin home THEN fails(<<"ccip home not found">>)
        ELSE IF "RMNHome 1.6.0-dev" \notin home THEN fails(<<"rmn home not found">>)
        ELSE configureChainLoop(book, c, 1, fault, <<>>)

Configured(c, nodes, r) ==
    [called |-> TRUE, c |-> c, nodes |-> nodes, err |-> r.err, calls |-> r.calls]

\* a caller invokes configureChain on the environment as it is
configureChainCall(c, nodes, fault) ==
    /\ coord.status = "idle"
    /\ coord' = [coord EXCEPT !.kind = "configure", !.status = "finished",
                              !.selectors = c.ChainsToDeploy,
                              !.config = Configured(c, nodes, configureChain(existing, nodes, c, fault))]
    /\ UNCHANGED <<existing, ab, onchain, task>>
    /\ UNCHANGED <<capVars, aggVars>>

CfgInit ==
    /\ CapIdle
    /\ AggregatorAbsent
    /\ \E stageOf \in [Chains -> Stages], case \in HomeCases : Environment(stageOf, case)

CfgNext ==
    \E chainsToDeploy \in Selectors(Chains \cup {UnknownSel}), secretsEmpty \in BOOLEAN,
       nodes \in NodeSets, fault \in ConfigFaults :
        /\ Len(chainsToDeploy) <= Cardinality(Chains)
        /\ configureChainCall(NewChainsConfig(HomeChainSel, chainsToDeploy, secretsEmpty), nodes, fault)

SpecCfg == CfgInit /\ [][CfgNext]_vars

\* the records configureChain requires: those of the home chain, and for every
\* chain of the request its state and its off-ramp
MissingFor(c) ==
    \/ ~(HomeTags \subseteq ChainState(existing, c.HomeChainSel))
    \/ \E k \in 1..Len(c.ChainsToDeploy) :
          \/ c.ChainsToDeploy[k] \notin Chains
          \/ "OffRamp 1.6.0-dev" \notin ChainState(existing, c.ChainsToDeploy[k])

\* C14: when a record configureChain requires is absent, for the home chain or
\* for any chain of the request, configureChain fails and makes no mutating
\* call at all: neither AddChainConfig nor AddDON for any chain of the request.
C14_MissingRecordNoCall ==
    (coord.config.called /\ MissingFor(coord.config.c)) =>
        /\ coord.config.err # NoError
        /\ coord.config.calls = <<>>


(***************************************************************************)
(* deployCCIPContracts, invoked again after an invocation that failed      *)
(***************************************************************************)
MaxRetries == 1

CCIPFaults == {NoFault, <<"Merge">>} \cup ConfigFaults

\* a deployCCIPContracts that goes on to merge and configure after a deployment error
deployCCIPContractsIgnoringError(nodes, secretsEmpty, fault) ==
    /\ coord.kind = "chain"
    /\ coord.status = "returned"
    /\ LET c == NewChainsConfig(HomeChainSel, coord.selectors, secretsEmpty)
           merged == Merge(existing, ab)
           r == configureChain(merged, nodes, c, fault)
       IN  /\ coord' = [coord EXCEPT !.status = "finished", !.result = r.err,
                                     !.config = Configured(c, nodes, r)]
           /\ existing' = merged
    /\ UNCHANGED <<ab, onchain, task>>
    /\ UNCHANGED <<capVars, aggVars>>

\* deployCCIPContracts once deployChainContractsForChains has returned: on a
\* deployment error it returns the error, else it merges the new records into
\* e.ExistingAddresses and calls configureChain
deployCCIPContracts(nodes, secretsEmpty, fault) ==
    /\ coord.kind = "chain"
    /\ coord.status = "returned"
    /\ LET c == NewChainsConfig(HomeChainSel, coord.selectors, secretsEmpty)
           merged == Merge(existing, ab)
           r == configureChain(merged, nodes, c, fault)
       IN  IF coord.result # NoError
           THEN /\ coord' = [coord EXCEPT !.status = "finished"]
                /\ existing' = existing
           ELSE IF fault = <<"Merge">>
           THEN /\ coord' = [coord EXCEPT !.status = "finished", !.result = fault]
                /\ existing' = existing
           ELSE /\ coord' = [coord EXCEPT !.status = "finished", !.result = r.err,
                                          !.config = Configured(c, nodes, r)]
                /\ existing' = merged
    /\ UNCHANGED <<ab, onchain, task>>
    /\ UNCHANGED <<capVars, aggVars>>

\* the caller invokes deployCCIPContracts again after an invocation that failed
\* in deployment, with the same address book for the new records, or with that
\* book merged into e.ExistingAddresses and a fresh one for the new records
Reinvoke(merge) ==
    /\ coord.kind = "chain"
    /\ coord.status = "finished"
    /\ ~coord.config.called
    /\ coord.result # <<"Merge">>
    /\ WaitReady(task)
    /\ coord.runs < MaxRetries
    /\ existing' = IF merge THEN Merge(existing, ab) ELSE existing
    /\ ab' = IF merge THEN EmptyBook ELSE ab
    /\ task' = [c \in Chains |-> IdleTask]
    /\ coord' = [IdleCoord EXCEPT !.runs = coord.runs + 1,
                                  !.retry = [failed |-> TRUE, merged |-> merge, ab |-> ab]]
    /\ UNCHANGED onchain
    /\ UNCHANGED <<capVars, aggVars>>

\* deployCCIPContracts assumes the fee tokens are deployed on all chains
CCIPStages == {"prerequisites", "deployed"}

CCIPInit ==
    /\ CapIdle
    /\ AggregatorAbsent
    /\ \E stageOf \in [Chains -> CCIPStages] :
          /\ \E c \in Chains : stageOf[c] = "deployed"
          /\ Environment(stageOf, "ok")

CCIPNext ==
    \/ \E chainsToDeploy \in Selectors(Chains \cup {UnknownSel}), fault \in HomeFaults :
          /\ Len(chainsToDeploy) <= Cardinality(Chains)
          /\ deployChainContractsForChains(HomeChainSel, chainsToDeploy, fault)
    \/ Go
    \/ Wait
    \/ \E c \in Chains, fault \in {"none", "LoadOnchainState"} : Begin(c, fault)
    \/ \E c \in Chains : StepSucceeds(c)
    \/ \E c \in Chains : StepFails(c, 0)
    \/ \E nodes \in NodeSets, secretsEmpty \in BOOLEAN, fault \in CCIPFaults :
          deployCCIPContracts(nodes, secretsEmpty, fault)
    \/ \E merge \in BOOLEAN : Reinvoke(merge)

SpecCCIP == CCIPInit /\ [][CCIPNext]_vars


\* an invocation of deployCCIPContracts starts configureChain, or ends after a
\* deployment in which a chain failed or that returned an error
ConfigureOnlyAfterDeployAndMerge ==
    /\ (coord'.config.called /\ ~coord.config.called) =>
          /\ coord.result = NoError
          /\ AllSucceeded
          /\ existing' = Merge(existing, ab)
          /\ \A k \in 1..Len(coord.selectors) :
                Records(ab, coord.selectors[k]) \subseteq Records(existing', coord.selectors[k])
    /\ (coord.status = "returned" /\ (Failed # {} \/ coord.result # NoError)) =>
          /\ existing' = existing
          /\ ~coord'.config.called
          /\ coord'.config.calls = <<>>

\* C15: in deployCCIPContracts, configureChain starts only after the deployer of
\* every target chain has completed successfully and the new records have been
\* merged into the existing address book; when the deployment fails for any
\* chain, neither the merge nor any configuration call happens.
C15_ConfigureAfterDeployAndMerge == [][ConfigureOnlyAfterDeployAndMerge]_vars

C15_Witness ==
    /\ coord.config.called
    /\ coord.config.calls # <<>>
    /\ \E c \in Chains : Deployed(c) # {} /\ Records(ab, c) \subseteq Records(existing, c)


\* the records of chain c, those merged and those of the current run
AllRecords(c) == Merge(existing, ab)[c]

\* C16: after any sequence of deployer runs on a chain, runs that a step failure
\* aborted and that were invoked again with the merged address book included,
\* no two records of the chain have the same type and version.
C16_NoDuplicateRecords ==
    \A c \in Chains, tv \in Tags : CopiesIn(tv, AllRecords(c)) <= 1


USDCEnabled(c) == \E i \in 1..Len(coord.opts.USDCEnabledChains) : coord.opts.USDCEnabledChains[i] = c

\* the records the prerequisite deployer is to leave on chain c under the
\* options of the run
Wanted(c) ==
    (PrerequisiteTags \ (IF coord.opts.Multicall3Enabled THEN {} ELSE {"Multicall3 1.0.0"}))
        \cup (IF USDCEnabled(c) THEN Range(USDCTags) ELSE {})

FullyDeployed(c) == Wanted(c) \subseteq Records(existing, c)

EmptyChain(c) == Records(existing, c) \cap (PrerequisiteTags \cup Range(USDCTags)) = {}

\* the coordinator of the prerequisite deployers has returned from a run over
\* both chains, d fully deployed and e empty before the run, in which nothing failed
OneDeployedOneEmpty(d, e) ==
    /\ coord.kind = "prerequisite"
    /\ coord.status = "returned"
    /\ coord.via = "Wait"
    /\ Failed = {}
    /\ d # e
    /\ Selected(d) /\ Selected(e)
    /\ FullyDeployed(d)
    /\ EmptyChain(e)

\* C17: with two target chains, one already fully deployed and one empty, a run
\* of the fan-out coordinator deploys only in the empty chain, returns no error,
\* and afterwards the address book, existing merged with new, holds the records
\* of both chains.
C17_DeploysOnlyInEmptyChain ==
    \A d, e \in Chains :
        OneDeployedOneEmpty(d, e) =>
            /\ Deployed(d) = {}
            /\ Records(ab, d) = {}
            /\ Deployed(e) # {}
            /\ coord.result = NoError
            /\ Wanted(d) \subseteq BagToSet(AllRecords(d))
            /\ Wanted(e) \subseteq BagToSet(AllRecords(e))


\* the types the deployer of chain c deployed in this invocation
DeployedTypes(c) ==
    { Steps(coord.kind)[k].tv :
        k \in { n \in 1..Len(Steps(coord.kind)) :
                  /\ Steps(coord.kind)[n].kind = "deploy"
                  /\ \E m \in 1..Len(task[c].ran) : task[c].ran[m] = Steps(coord.kind)[n].step } }

\* C18: invoking deployCCIPContracts again after an invocation that failed at
\* some step is safe: the second invocation sees the records of the steps that
\* succeeded in the failed one, and deploys none of those programs again.
C18_ReinvocationSkipsDeployed ==
    (coord.kind = "chain" /\ coord.retry.failed) =>
        \A c \in Chains :
            /\ DeployedTypes(c) \cap Records(coord.retry.ab, c) = {}
            /\ Running(task[c]) /\ task[c].status = "running"
                  => Records(coord.retry.ab, c) \subseteq task[c].have


\* the request of the last call holds a capability that was registered when the
\* call read the registry, or holds one capability twice
HasDuplicate ==
    \/ \E i \in 1..Len(last.request) : HashOf(last.request[i]) \in last.before
    \/ \E i, j \in 1..Len(last.request) : i # j /\ last.request[i] = last.request[j]

\* C19: AddCapabilities returns an error only when a registry read
\* (GetCapabilities, GetHashedCapabilityId), the submission or the confirmation
\* fails; a request with registered or repeated capabilities gives no error on
\* that account.
C19_ErrorOnlyFromFailedCall ==
    IsCall =>
        /\ last.add.err # Nil =>
              /\ last.fault \in {"GetCapabilities", "GetHashedCapabilityId", "AddCapabilities", "Confirm"}
              /\ last.fault \in {"AddCapabilities", "Confirm"} =>
                    \E c \in Range(last.add.calls) : c.failed
        /\ (HasDuplicate /\ last.fault \in {"none", "UpdateNodes"}) => last.add.err = Nil

C19_Witness ==
    /\ last.kind = "AddCapabilities"
    /\ ~last.useMCMS
    /\ \E i \in 1..Len(last.request) : HashOf(last.request[i]) \in last.before
    /\ \E i, j \in 1..Len(last.request) : i # j /\ last.request[i] = last.request[j]
    /\ last.fault = "none"
    /\ last.add.err = Nil
    /\ Len(last.add.calls) = 2


\* the last event made an AppendNodeCapabilities request take effect: the
\* changeset applied in direct mode, or its proposal executed to the end
TookEffect ==
    \/ last.kind = "Apply" /\ ~last.useMCMS
    \/ last.kind = "Execute" /\ ~last.aborted

RequestedIds(p) == { HashOf(c) : c \in Range(last.request[p]) }

MaxRound == 1

Deposit == 6

Personas == {"Carol", "Neil", "Ned", "Nelly", "Eddy"}

\* the accounts the test adds as oracles
Oracles == {"Neil", "Ned", "Nelly"}

Aggregator == "aggregator"

Accounts == Personas \cup {Aggregator}

AnswerValues == {99, 101}

PaymentAmounts == {2, 3}

Rounds == 0..MaxRound

\* LINK.transfer(to, amount) sent by from: fails on an insufficient balance
Transfer(balances, from, to, amount) ==
    IF amount > balances[from] THEN [ok |-> FALSE, balances |-> balances]
    ELSE [ok |-> TRUE,
          balances |-> [a \in DOMAIN balances |->
                          IF a = from /\ a = to THEN balances[a]
                          ELSE IF a = from THEN balances[a] - amount
                          ELSE IF a = to THEN balances[a] + amount
                          ELSE balances[a]]]

\* the list with x inserted before the first greater element
RECURSIVE Insert(_, _)
Insert(sorted, x) ==
    IF sorted = <<>> THEN <<x>>
    ELSE IF x <= Head(sorted) THEN <<x>> \o sorted
    ELSE <<Head(sorted)>> \o Insert(Tail(sorted), x)

RECURSIVE Sort(_)
Sort(list) == IF list = <<>> THEN <<>> ELSE Insert(Sort(Tail(list)), Head(list))

\* the answer reported last, in place of the median
Latest(list) == list[Len(list)]

\* the median of a nonempty list: its middle element in order, the mean of the
\* two middle ones when it has an even number of elements
Median(list) ==
    LET sorted == Sort(list)
        n == Len(list)
    IN  IF n % 2 = 1 THEN sorted[(n + 1) \div 2]
        ELSE (sorted[n \div 2] + sorted[n \div 2 + 1]) \div 2

\* what a transaction leaves: whether it reverted, and the state it leaves
Reverts(agg, balances) == [reverted |-> TRUE, aggregator |-> agg, link |-> balances]

Succeeds(agg, balances) == [reverted |-> FALSE, aggregator |-> agg, link |-> balances]

\* Aggregator.new(link.address, paymentAmount, {from: owner})
NewAggregator(owner, paymentAmount) ==
    [deployed |-> TRUE, owner |-> owner, oracles |-> {}, oracleCount |-> 0,
     minimumAnswerCount |-> 0, paymentAmount |-> paymentAmount,
     currentRound |-> 0, currentAnswer |-> 0, answers |-> [r \in Rounds |-> <<>>]]

\* a modifier onlyOwner that lets every caller in
onlyOwnerAnyone(agg, from) == TRUE

onlyOwner(agg, from) == from = agg.owner

transferOwnership(agg, balances, from, newOwner) ==
    IF ~onlyOwner(agg, from) THEN Reverts(agg, balances)
    ELSE Succeeds([agg EXCEPT !.owner = newOwner], balances)

\* an addOracle that does not count the oracle it adds
addOracleNotCounted(agg, balances, from, oracle) ==
    IF ~onlyOwner(agg, from) \/ oracle \in agg.oracles THEN Reverts(agg, balances)
    ELSE Succeeds([agg EXCEPT !.oracles = @ \cup {oracle}], balances)

addOracle(agg, balances, from, oracle) ==
    IF ~onlyOwner(agg, from) \/ oracle \in agg.oracles THEN Reverts(agg, balances)
    ELSE Succeeds([agg EXCEPT !.oracles = @ \cup {oracle},
                              !.oracleCount = @ + 1,
                              !.minimumAnswerCount = agg.oracleCount + 1], balances)

removeOracle(agg, balances, from, oracle) ==
    IF ~onlyOwner(agg, from) \/ oracle \notin agg.oracles THEN Reverts(agg, balances)
    ELSE Succeeds([agg EXCEPT !.oracles = @ \ {oracle}, !.oracleCount = @ - 1], balances)

transferLINK(agg, balances, from, recipient, amount) ==
    LET t == Transfer(balances, Aggregator, recipient, amount)
    IN  IF ~onlyOwner(agg, from) \/ ~t.ok THEN Reverts(agg, balances)
        ELSE Succeeds(agg, t.balances)

setPaymentAmount(agg, balances, from, newAmount) ==
    IF ~onlyOwner(agg, from) THEN Reverts(agg, balances)
    ELSE Succeeds([agg EXCEPT !.paymentAmount = newAmount], balances)

setMinimumAnswerCount(agg, balances, from, newMinimum) ==
    IF ~onlyOwner(agg, from) \/ newMinimum > agg.oracleCount THEN Reverts(agg, balances)
    ELSE Succeeds([agg EXCEPT !.minimumAnswerCount = newMinimum], balances)

onlyOracle(agg, from) == from \in agg.oracles

\* a check of the round that lets every round number in
validRoundAny(agg, round) == TRUE

\* the round reported on is at most the one after the current round
validRound(agg, round) == round <= agg.currentRound + 1

\* updateAnswer(answer, round, {from}): only an added oracle may report, and on
\* no round higher than the one after the current round; a new highest round
\* number starts that round; the answer joins the answers of its round, the
\* reporter is paid, and once the round has minimumAnswerCount answers the
\* current answer is their median
updateAnswer(agg, balances, from, answer, round) ==
    LET pay == Transfer(balances, Aggregator, from, agg.paymentAmount)
        reported == IF round \in DOMAIN agg.answers THEN Append(agg.answers[round], answer)
                    ELSE <<answer>>
    IN  IF ~onlyOracle(agg, from) THEN Reverts(agg, balances)
        ELSE IF ~validRound(agg, round) THEN Reverts(agg, balances)
        ELSE IF ~pay.ok THEN Reverts(agg, balances)
        ELSE Succeeds(
                [agg EXCEPT !.currentRound = IF round > @ THEN round ELSE @,
                            !.answers[round] = reported,
                            !.currentAnswer = IF Len(reported) >= agg.minimumAnswerCount
                                              THEN Median(reported) ELSE @],
                pay.balances)

\* a persona sends a transaction to the aggregator and r is what it leaves; a
\* transaction that reverts leaves every state as it was
Send(fn, from, account, amount, round, r) ==
    /\ aggregator.deployed
    /\ aggregator' = r.aggregator
    /\ link' = r.link
    /\ tx' = [fn |-> fn, from |-> from, account |-> account, amount |-> amount,
              round |-> round, reverted |-> r.reverted]
    /\ UNCHANGED <<capVars, deployVars>>

SendAddOracle(from, oracle) ==
    Send("addOracle", from, oracle, 0, 0, addOracle(aggregator, link, from, oracle))

SendRemoveOracle(from, oracle) ==
    Send("removeOracle", from, oracle, 0, 0, removeOracle(aggregator, link, from, oracle))

SendTransferLINK(from, recipient, amount) ==
    Send("transferLINK", from, recipient, amount, 0,
         transferLINK(aggregator, link, from, recipient, amount))

SendSetPaymentAmount(from, newAmount) ==
    Send("setPaymentAmount", from, "none", newAmount, 0,
         setPaymentAmount(aggregator, link, from, newAmount))

SendSetMinimumAnswerCount(from, newMinimum) ==
    Send("setMinimumAnswerCount", from, "none", newMinimum, 0,
         setMinimumAnswerCount(aggregator, link, from, newMinimum))

SendTransferOwnership(from, newOwner) ==
    Send("transferOwnership", from, newOwner, 0, 0,
         transferOwnership(aggregator, link, from, newOwner))

SendUpdateAnswer(from, answer, round) ==
    Send("updateAnswer", from, "none", 0, round,
         updateAnswer(aggregator, link, from, answer, round))

\* beforeEach: the aggregator deployed by Carol, and the deposit transferred to it
AggInit ==
    /\ CapIdle
    /\ DeployIdle
    /\ aggregator = NewAggregator("Carol", 3)
    /\ link = [a \in Accounts |-> IF a = Aggregator THEN Deposit ELSE 0]
    /\ tx = NoTx

\* the calls of the functions reserved to the owner, by every persona
AggNext ==
    \/ \E from \in Personas, oracle \in Oracles : SendAddOracle(from, oracle)
    \/ \E from \in Personas, oracle \in Oracles : SendRemoveOracle(from, oracle)
    \/ \E from \in Personas, amount \in {3, Deposit, Deposit + 1} :
          SendTransferLINK(from, "Carol", amount)
    \/ \E from \in Personas, newAmount \in PaymentAmounts : SendSetPaymentAmount(from, newAmount)
    \/ \E from \in Personas, newMinimum \in 0..(Cardinality(Oracles) + 1) :
          SendSetMinimumAnswerCount(from, newMinimum)
    \/ \E from \in Personas, newOwner \in {"Carol", "Eddy"} : SendTransferOwnership(from, newOwner)

SpecAgg == AggInit /\ [][AggNext]_vars

\* the functions of the aggregator reserved to its owner
OwnerFunctions ==
    {"addOracle", "removeOracle", "transferLINK", "setPaymentAmount", "setMinimumAnswerCount"}

RECURSIVE AddOracles(_, _, _)
AddOracles(agg, from, oracles) ==
    IF oracles = {} THEN agg
    ELSE LET oracle == CHOOSE o \in oracles : TRUE
         IN  AddOracles(addOracle(agg, [a \in Accounts |-> 0], from, oracle).aggregator,
                        from, oracles \ {oracle})

\* beforeEach of #updateAnswer: Carol has added Neil, Ned and Nelly
AnswerInit ==
    /\ CapIdle
    /\ DeployIdle
    /\ aggregator = AddOracles(NewAggregator("Carol", 3), "Carol", Oracles)
    /\ link = [a \in Accounts |-> IF a = Aggregator THEN Deposit ELSE 0]
    /\ tx = NoTx

\* reports by the oracles and by Carol, on the rounds up to MaxRound and on a
\* round higher than expected, between changes the owner makes
AnswerNext ==
    \/ \E from \in Oracles \cup {"Carol"}, answer \in AnswerValues, round \in 0..(MaxRound + 1) :
          /\ round <= MaxRound \/ round > aggregator.currentRound + 1
          /\ SendUpdateAnswer(from, answer, round)
    \/ SendAddOracle("Carol", "Neil")
    \/ SendRemoveOracle("Carol", "Neil")
    \/ \E newAmount \in PaymentAmounts : SendSetPaymentAmount("Carol", newAmount)
    \/ \E newMinimum \in 2..Cardinality(Oracles) : SendSetMinimumAnswerCount("Carol", newMinimum)

SpecAnswer == AnswerInit /\ [][AnswerNext]_vars

IsMedian(m, list) ==
    /\ 2 * Cardinality({i \in DOMAIN list : list[i] <= m}) >= Len(list)
    /\ 2 * Cardinality({i \in DOMAIN list : list[i] >= m}) >= Len(list)

Passes(step) ==
    CASE step = "RMNProxyExisting" -> {"MockRMN 1.0.0"}
      [] step = "RegistryModule" -> {"TokenAdminRegistry 1.5.0"}
      [] step = "Router" -> {"WETH9 1.0.0", "ARMProxy 1.0.0"}
      [] step = "DeployUSDC" -> {"ARMProxy 1.0.0", "Router 1.2.0"}
      [] step = "RMNProxyNew" -> {"RMNRemote 1.6.0-dev"}
      [] step = "TestRouter" -> {"WETH9 1.0.0", "ARMProxy 1.6.0-dev"}
      [] step = "FeeQuoter" -> {"LinkToken 1.0.0", TimelockTag, "WETH9 1.0.0"}
      [] step \in {"OnRamp", "OffRamp"} ->
            {"ARMProxy 1.6.0-dev", "NonceManager 1.6.0-dev", "TokenAdminRegistry 1.5.0",
             "FeeQuoter 1.6.0-dev"}
      [] OTHER -> {}

\* the contracts the deployer of chain c holds: its local variables, set from the
\* existing records or by an earlier step of the run, and the mock RMN inside
\* the block that has just deployed it
Held(c) ==
    task[c].have \cup
        (IF task[c].ran # <<>> /\ task[c].ran[Len(task[c].ran)] = "MockRMN"
         THEN {"MockRMN 1.0.0"} ELSE {})

\* the deployer of chain c deployed the program of this step in this run
RanStep(c, step) == \E n \in 1..Len(task[c].ran) : task[c].ran[n] = step

\* C25: whenever a deployment step deploys a program, every address it passes
\* (the token admin registry for the registry module, WETH9 and the RMN proxy for
\* the routers, the RMN proxy, the nonce manager, the token admin registry and
\* the fee quoter for the ramps) is non-nil: the deployer holds the contract,
\* from an existing record or from an earlier step of the same run
C25_PassedAddressesNonNil ==
    \A c \in Chains :
        task[c].status = "running" =>
            LET s == Steps(coord.kind)[task[c].pc]
            IN  s.kind \in {"deploy", "usdc"} => Passes(s.step) \subseteq Held(c)

\* the off-ramp was deployed with the RMN proxy, the nonce manager and the fee
\* quoter this run deployed and the token admin registry of an existing record
C25_Witness ==
    \E c \in Chains :
        /\ coord.kind = "chain"
        /\ RanStep(c, "RMNProxyNew") /\ RanStep(c, "NonceManager") /\ RanStep(c, "FeeQuoter")
        /\ RanStep(c, "OffRamp")
        /\ "TokenAdminRegistry 1.5.0" \in Records(existing, c)
        /\ "NonceManager 1.6.0-dev" \notin Records(existing, c)

\* deployChainContracts called on its own, on a chain that holds any of the
\* records it requires, or the records of a stage of deployment
DirectRecords == SUBSET Range(RequiredTags) \cup { StageTags(stage) : stage \in Stages }

DirectFacts(records) ==
    IF records \in SUBSET Range(RequiredTags)
    THEN IF {"TokenAdminRegistry 1.5.0", "RegistryModuleOwnerCustom 1.5.0"} \subseteq records
         THEN {{}, {"RegistryModuleAdded"}} ELSE {{}}
    ELSE { StageFacts(stage) : stage \in { st \in Stages : StageTags(st) = records } }

DirectInit ==
    /\ CapIdle
    /\ AggregatorAbsent
    /\ \E records \in DirectRecords : \E facts \in DirectFacts(records) :
          /\ existing = BookOf([c \in Chains |-> IF c = HomeChainSel THEN HomeTags ELSE records])
          /\ onchain = [c \in Chains |-> IF c = HomeChainSel THEN HomeFacts("ok") ELSE facts]
    /\ ab = EmptyBook
    /\ task = [c \in Chains |-> IF c = SeqChain THEN [IdleTask EXCEPT !.status = "started"]
                                 ELSE IdleTask]
    /\ coord = [IdleCoord EXCEPT !.kind = "chain", !.status = "direct",
                                 !.selectors = <<SeqChain>>]

DirectNext ==
    \/ \E fault \in {"none", "LoadOnchainState"} : Begin(SeqChain, fault)
    \/ StepSucceeds(SeqChain)
    \/ StepFails(SeqChain, 0)

SpecDirect == DirectInit /\ [][DirectNext]_vars

\* the loaded state does not hold chain c, or chain c lacks a record
\* deployChainContracts requires
Lacking(c) ==
    \/ ~ChainExists(existing, c)
    \/ ~(Range(RequiredTags) \subseteq ChainState(existing, c))

\* C26: deployChainContracts fails before it deploys anything or sends any
\* transaction when its chain is absent from the loaded state or lacks a
\* required record (WETH9, timelock, LINK token, token admin registry, registry
\* module, router); the address book and the on-chain state stay as they were
C26_FailsBeforeAnyStep ==
    /\ [](\A c \in Chains : (coord.kind = "chain" /\ Lacking(c)) =>
              /\ task[c].status \in {"idle", "started", "failed"}
              /\ task[c].ran = <<>>
              /\ task[c].status = "failed" => task[c].err # NoError)
    /\ [][\A c \in Chains : (coord.kind = "chain" /\ Lacking(c)) =>
              /\ ab'[c] = ab[c]
              /\ onchain'[c] = onchain[c]
              /\ existing'[c] = existing[c]
              /\ task[c].status = "started" => task'[c].status \in {"started", "failed"}]_vars

\* deployChainContracts failed on a chain that has every required record but
\* the router
C26_Witness ==
    /\ coord.kind = "chain"
    /\ task[SeqChain].status = "failed"
    /\ task[SeqChain].ran = <<>>
    /\ Range(RequiredTags) \ ChainState(existing, SeqChain) = {"Router 1.2.0"}

\* C27: the optional programs are deployed only under their options: a run of
\* deployPrerequisiteContracts deploys Multicall3 on a chain if and only if
\* Multicall3Enabled is set and the chain has no Multicall3 record, and USDC
\* programs are deployed only on chains listed in USDCEnabledChains
C27_OptionalOnlyUnderFlag ==
    \A c \in Chains :
        LET wanted == /\ coord.opts.Multicall3Enabled
                      /\ "Multicall3 1.0.0" \notin Records(existing, c)
        IN  /\ RanStep(c, "Multicall3") => wanted
            /\ "Multicall3 1.0.0" \in Records(ab, c) <=> RanStep(c, "Multicall3")
            /\ (coord.kind = "prerequisite" /\ task[c].status = "done" /\ wanted)
                    => RanStep(c, "Multicall3")
            /\ (RanStep(c, "DeployUSDC") \/ Records(ab, c) \cap Range(USDCTags) # {})
                    => USDCEnabled(c)

\* one run deployed Multicall3 on both chains and the USDC programs on the one
\* chain its options list
C27_Witness ==
    \E c, d \in Chains :
        /\ c # d
        /\ task[c].status = "done" /\ task[d].status = "done"
        /\ RanStep(c, "Multicall3") /\ RanStep(d, "Multicall3")
        /\ Range(USDCTags) \subseteq Records(ab, c)
        /\ Records(ab, d) \cap Range(USDCTags) = {}

\* the deployer of chain c is about to submit the transaction of this step
Submitting(c, step) ==
    task[c].status = "running" /\ Steps(coord.kind)[task[c].pc].step = step

\* the run follows a run of deployPrerequisiteChainContracts that succeeded
AfterPrerequisites == coord.prev.ok /\ coord.prev.kind = "prerequisite"

\* C28: deployPrerequisiteContracts submits AddRegistryModule on the token admin
\* registry only when the registry module is not yet registered there; whenever
\* the deployer returns success the registry module is registered; a second run
\* submits no AddRegistryModule transaction
C28_RegistryModuleAddedOnce ==
    \A c \in Chains :
        coord.kind = "prerequisite" =>
            /\ Submitting(c, "AddRegistryModule") => "RegistryModuleAdded" \notin onchain[c]
            /\ task[c].status = "done" => "RegistryModuleAdded" \in onchain[c]
            /\ AfterPrerequisites =>
                  /\ ~Submitting(c, "AddRegistryModule")
                  /\ ~RanStep(c, "AddRegistryModule")

\* a second run of deployPrerequisiteContracts succeeded on a chain whose
\* registry module the first run registered
C28_Witness ==
    /\ coord.kind = "prerequisite"
    /\ AfterPrerequisites
    /\ task[SeqChain].status = "done"
    /\ "RegistryModuleAdded" \in onchain[SeqChain]
    /\ "RegistryModuleOwnerCustom 1.5.0" \in Records(existing, SeqChain)

\* C29: whenever deployChainContracts returns success, the off-ramp is an
\* authorized caller of the fee quoter and the on-ramp and the off-ramp are
\* authorized callers of the nonce manager, the run having submitted both
\* updates, also when every program existed and the run deployed nothing
C29_WiredOnSuccess ==
    \A c \in Chains :
        (coord.kind = "chain" /\ task[c].status = "done") =>
            /\ RanStep(c, "FeeQuoter.ApplyAuthorizedCallerUpdates")
            /\ RanStep(c, "NonceManager.ApplyAuthorizedCallerUpdates")
            /\ {"FeeQuoterCallers", "NonceManagerCallers"} \subseteq onchain[c]

\* deployChainContracts succeeded without deploying a program, every program
\* being there from a run of it that failed
C29_Witness ==
    /\ coord.kind = "chain"
    /\ coord.prev.kind = "chain"
    /\ ~coord.prev.ok
    /\ task[SeqChain].status = "done"
    /\ Deployed(SeqChain) = {}
    /\ ChainTags \subseteq Records(existing, SeqChain)
    /\ {"FeeQuoterCallers", "NonceManagerCallers"} \subseteq onchain[SeqChain]

\* the calls that wire every chain of the request: AddChainConfig and then AddDON
\* for each, none of them failed
WiredAll(c, calls) ==
    /\ Len(calls) = 2 * Len(c.ChainsToDeploy)
    /\ \A k \in 1..Len(c.ChainsToDeploy) :
          /\ calls[2 * k - 1] = Invocation("AddChainConfig", c.ChainsToDeploy[k], FALSE)
          /\ calls[2 * k] = Invocation("AddDON", c.ChainsToDeploy[k], FALSE)

\* C30: whenever configureChain returns a nil error, AddChainConfig and then
\* AddDON have been invoked successfully for every chain in ChainsToDeploy;
\* configureChain never reports success after it performed no wiring for a
\* requested chain, as with an empty node list
C30_NilOnlyAfterWiring ==
    (coord.config.called /\ coord.config.err = NoError) =>
        WiredAll(coord.config.c, coord.config.calls)

(***************************************************************************)
(* What AddCapabilities returns and submits, case by case                  *)
(***************************************************************************)
\* the batch of one add-capabilities operation on the registry, for caps
OneAddOperation(caps) ==
    <<[ChainIdentifier |-> RegistryChainSel,
       Batch |-> <<[To |-> RegistryAddress,
                    Data |-> [method |-> "AddCapabilities", args |-> caps],
                    Value |-> 0]>>]>>

BatchedSuccess == BatchedCall /\ last.add.err = Nil

\* C31 as claimed: in batched mode every successful AddCapabilities returns a
\* batch for the registry's chain with exactly one operation: to the registry,
\* value 0, the AddCapabilities call with exactly the deduplicated list.
C31_SuccessReturnsOneOperation ==
    BatchedSuccess =>
        last.add.batch = OneAddOperation(DistinctUnregistered(last.before, last.request, 1))

\* C31 as amended: in batched mode a successful AddCapabilities of a non-empty
\* request returns a batch for the registry's chain with exactly one operation:
\* to the registry, value 0, the AddCapabilities call with exactly the
\* deduplicated list.
C31_NonEmptySuccessReturnsOneOperation ==
    (BatchedSuccess /\ Len(last.request) > 0) =>
        last.add.batch = OneAddOperation(DistinctUnregistered(last.before, last.request, 1))

C31_Witness ==
    /\ BatchedSuccess
    /\ last.kind = "AddCapabilities"
    /\ Len(last.request) = 2
    /\ Len(last.add.batch) = 1
    /\ Len(last.add.batch[1].Batch) = 1
    /\ Len(last.add.batch[1].Batch[1].Data.args) = 1

\* the call of the last AddCapabilities that failed, by the kind of the call
DedupFailed == IsCall /\ Len(last.request) > 0 /\ last.fault \in {"GetCapabilities", "GetHashedCapabilityId"}

SubmissionFailed ==
    IsCall /\ \E c \in Range(last.add.calls) : c.fn = "registry.AddCapabilities" /\ c.failed

Confirms == { c \in Range(last.add.calls) : c.fn = "chain.Confirm" }

\* C32: a failed AddCapabilities has no further effect: when deduplication
\* fails nothing is submitted and no batch returned; when the submission fails
\* chain.Confirm is not called and no batch returned; every error comes with
\* the nil batch.
C32_FailureHasNoFurtherEffect ==
    /\ DedupFailed =>
          /\ last.add.err = "failed to dedup capabilities"
          /\ last.add.calls = <<>>
          /\ last.add.batch = NoBatch
          /\ registry = last.before
    /\ SubmissionFailed =>
          /\ last.add.err = "failed to add capabilities"
          /\ Confirms = {}
          /\ last.add.batch = NoBatch
          /\ registry = last.before
    /\ (IsCall /\ last.add.err # Nil) => last.add.batch = NoBatch

C32_Witness ==
    /\ SubmissionFailed
    /\ last.kind = "AddCapabilities"
    /\ last.useMCMS
    /\ Len(last.add.calls) = 1
    /\ last.add.calls[1].args # <<>>
    /\ last.add.err # Nil

\* the requested capabilities that survive deduplication
Survivors == DistinctUnregistered(last.before, last.request, 1)

\* C33: AddCapabilities submits a transaction or emits a batch operation only
\* when a requested capability survives deduplication: for an empty request and
\* for a request whose capabilities are all registered it makes no registration
\* call on the registry and returns no batch.
C33_SubmitsOnlySurvivors ==
    (IsCall /\ Survivors = <<>>) =>
        /\ Handed = {}
        /\ Confirms = {}
        /\ last.add.batch = NoBatch

(***************************************************************************)
(* Which requested descriptors dedupCapabilities takes for duplicates      *)
(***************************************************************************)
\* the i-th requested descriptor is new: its hash is not registered and its
\* (name, version) differs from that of every earlier requested descriptor
NewInRequest(i) ==
    /\ HashOf(dedup.request[i]) \notin dedup.existing
    /\ \A j \in 1..(i - 1) : ~SameCapability(dedup.request[j], dedup.request[i])

\* C34: dedupCapabilities keeps every requested descriptor whose (name,
\* version) differs from every earlier requested one and whose hash is not
\* registered, whatever characters the name and the version contain.
C34_DistinctNameVersionKept ==
    (dedup.phase = "done" /\ dedup.result.err = Nil) =>
        \A i \in 1..Len(dedup.request) :
            NewInRequest(i) => dedup.request[i] \in Range(dedup.result.out)

(***************************************************************************)
(* deployChainContractsForChains on a home chain that lacks something      *)
(***************************************************************************)
\* a home record is absent, or the registry's CCIP capability id or its CCIP
\* home address is not the expected one
HomeLacks ==
    \/ ~(HomeTags \subseteq ChainState(existing, HomeChainSel))
    \/ ~({"CCIPCapabilityId", "CCIPHomeConfigured"} \subseteq onchain[HomeChainSel])

\* C35: called on a home chain that lacks a required record, or whose CCIP
\* capability id or CCIP home address does not match, deployChainContractsForChains
\* returns an error, without crashing and without starting any task.
C35_HomeFailureIsAnError ==
    (coord.kind = "chain" /\ HomeLacks) =>
        /\ coord.status = "returned"
        /\ coord.result # NoError
        /\ \A c \in Chains : task[c].status = "idle"

====
